---- MODULE Spec2Model ----
(***************************************************************************)
(* Model of the OpenFlow workflow engine (bot/engine.py) and of the agent  *)
(* chain handler (bot/nodes/agent.py).                                     *)
(*                                                                         *)
(* A payload (a Python dict) is a function from field names to values.     *)
(* An edge map (a Python dict, iterated in insertion order) is a sequence  *)
(* of entries [source, targets] whose sources are pairwise distinct.       *)
(***************************************************************************)
EXTENDS Integers, Sequences, FiniteSets, TLC

(***************************************************************************)
(* Bounds of the model.                                                    *)
(***************************************************************************)
\* largest number of edges (targets summed over all entries) of an edge map,
\* and largest number of entries of an edge map
MaxEdges == 2

\* node ids a workflow or an edge map may name
NodeIds == {"a", "b", "c"}

\* the node types used; "stub" is registered, "ghost" is not
NodeTypes == {"stub", "ghost"}

None == "None"

\* no exception
NoError == [kind |-> None, id |-> None]

\* run has not returned
NoReturn == [has |-> FALSE, value |-> <<>>]

EmptyPayload == <<>>

\* input payloads a caller passes to run
InputPayloads == {EmptyPayload, [w |-> 7]}

\* payloads a registered handler may return
HandlerOutputs == {EmptyPayload, [x |-> 1, y |-> 2], [y |-> 3, z |-> 4]}

SeqsUpTo(S, n) == UNION {[1..k -> S] : k \in 0..n}

\* models.Node: id, type (params are carried by the handler's behaviour)
Node == [id : NodeIds, type : NodeTypes]

\* node lists: ids may repeat; a list longer than the id universe adds only
\* further lists with repeated ids
NodeLists == SeqsUpTo(Node, Cardinality(NodeIds))

TargetLists == SeqsUpTo(NodeIds, MaxEdges)

RECURSIVE SumLen(_)
SumLen(ts) == IF ts = <<>> THEN 0 ELSE Len(Head(ts)) + SumLen(Tail(ts))

\* the key orders of an edge map: sequences of pairwise distinct sources, fewer
\* than there are ids
KeySeqs ==
    {ks \in SeqsUpTo(NodeIds, Cardinality(NodeIds) - 1) :
        \A i, j \in 1..Len(ks) : i # j => ks[i] # ks[j]}

\* dict[str, list[str]]: keys are distinct, order is insertion order
EdgeMaps ==
    UNION {{[i \in 1..Len(ks) |-> [source |-> ks[i], targets |-> ts[i]]] :
               ts \in {t \in [1..Len(ks) -> TargetLists] : SumLen(t) <= MaxEdges}} :
           ks \in KeySeqs}

\* models.Workflow: the fields the engine reads
Workflow == [nodes : NodeLists, edges : EdgeMaps]

(***************************************************************************)
(* dict helpers                                                            *)
(***************************************************************************)
\* dict.update: the fields of q overwrite those of p
Update(p, q) ==
    [f \in (DOMAIN p) \cup (DOMAIN q) |-> IF f \in DOMAIN q THEN q[f] ELSE p[f]]

\* d[k] = v on a dict
Store(d, k, v) == [x \in (DOMAIN d) \cup {k} |-> IF x = k THEN v ELSE d[x]]

\* edges.get(node_id, [])
EdgesGet(edges, id) ==
    IF \E i \in 1..Len(edges) : edges[i].source = id
    THEN edges[CHOOSE i \in 1..Len(edges) : edges[i].source = id].targets
    ELSE <<>>

InSeq(x, s) == \E i \in 1..Len(s) : s[i] = x

(***************************************************************************)
(* WorkflowEngine._topological_sort                                        *)
(***************************************************************************)
\* node_map = {n.id: n for n in nodes}: a later node of the same id wins
NodeMap(nodes) ==
    [id \in {nodes[i].id : i \in 1..Len(nodes)} |->
        nodes[CHOOSE i \in 1..Len(nodes) :
                 /\ nodes[i].id = id
                 /\ \A j \in 1..Len(nodes) : nodes[j].id = id => j <= i]]

\* the keys of indegree in insertion order: ids by first occurrence
RECURSIVE IdOrder(_, _)
IdOrder(nodes, seen) ==
    IF nodes = <<>> THEN <<>>
    ELSE IF Head(nodes).id \in seen THEN IdOrder(Tail(nodes), seen)
    ELSE <<Head(nodes).id>> \o IdOrder(Tail(nodes), seen \cup {Head(nodes).id})

\* fault: the in-degree of a target is never incremented
RECURSIVE CountTargetsNoCount(_, _, _)
CountTargetsNoCount(targets, known, deg) ==
    IF targets = <<>> THEN [err |-> NoError, deg |-> deg]
    ELSE IF Head(targets) \notin known
    THEN [err |-> [kind |-> "UnknownNodeReference", id |-> Head(targets)], deg |-> deg]
    ELSE CountTargetsNoCount(Tail(targets), known, deg)

\* the inner loop over one entry's targets (lines 60-63)
RECURSIVE CountTargets(_, _, _)
CountTargets(targets, known, deg) ==
    IF targets = <<>> THEN [err |-> NoError, deg |-> deg]
    ELSE IF Head(targets) \notin known
    THEN [err |-> [kind |-> "UnknownNodeReference", id |-> Head(targets)], deg |-> deg]
    ELSE CountTargets(Tail(targets), known,
                      [deg EXCEPT ![Head(targets)] = @ + 1])

\* fault: the source key of an entry is not validated
RECURSIVE CountEdgesNoSourceCheck(_, _, _)
CountEdgesNoSourceCheck(edges, known, deg) ==
    IF edges = <<>> THEN [err |-> NoError, deg |-> deg]
    ELSE LET r == CountTargets(Head(edges).targets, known, deg)
         IN  IF r.err # NoError THEN r
             ELSE CountEdgesNoSourceCheck(Tail(edges), known, r.deg)

\* the loop over the edge map that validates endpoints and counts in-degrees
\* (lines 57-63)
RECURSIVE CountEdges(_, _, _)
CountEdges(edges, known, deg) ==
    IF edges = <<>> THEN [err |-> NoError, deg |-> deg]
    ELSE IF Head(edges).source \notin known
    THEN [err |-> [kind |-> "UnknownNodeReference", id |-> Head(edges).source],
          deg |-> deg]
    ELSE LET r == CountTargets(Head(edges).targets, known, deg)
         IN  IF r.err # NoError THEN r ELSE CountEdges(Tail(edges), known, r.deg)

\* fault: a target whose in-degree reaches zero goes to the front of the queue
RECURSIVE RelaxToFront(_, _, _)
RelaxToFront(targets, deg, queue) ==
    IF targets = <<>> THEN [deg |-> deg, queue |-> queue]
    ELSE LET t == Head(targets)
             d == [deg EXCEPT ![t] = @ - 1]
         IN  RelaxToFront(Tail(targets), d, IF d[t] = 0 THEN <<t>> \o queue ELSE queue)

\* the loop over the targets of a dequeued node (lines 71-74)
RECURSIVE Relax(_, _, _)
Relax(targets, deg, queue) ==
    IF targets = <<>> THEN [deg |-> deg, queue |-> queue]
    ELSE LET t == Head(targets)
             d == [deg EXCEPT ![t] = @ - 1]
         IN  Relax(Tail(targets), d, IF d[t] = 0 THEN Append(queue, t) ELSE queue)

\* fault: a node taken from the queue is put at the front of the order
RECURSIVE KahnOrderReversed(_, _, _, _)
KahnOrderReversed(queue, deg, order, edges) ==
    IF queue = <<>> THEN order
    ELSE LET node_id == Head(queue)
             r == Relax(EdgesGet(edges, node_id), deg, Tail(queue))
         IN  KahnOrderReversed(r.queue, r.deg, <<node_id>> \o order, edges)

\* the while loop of Kahn's algorithm (lines 68-74); order holds node ids
RECURSIVE Kahn(_, _, _, _)
Kahn(queue, deg, order, edges) ==
    IF queue = <<>> THEN order
    ELSE LET node_id == Head(queue)
             r == Relax(EdgesGet(edges, node_id), deg, Tail(queue))
         IN  Kahn(r.queue, r.deg, Append(order, node_id), edges)

\* fault: the length of the order is not compared with the node count
TopologicalSortNoCycleCheck(nodes, edges) ==
    LET node_map == NodeMap(nodes)
        keys == IdOrder(nodes, {})
        counted == CountEdges(edges, DOMAIN node_map, [id \in DOMAIN node_map |-> 0])
    IN  IF counted.err # NoError THEN [err |-> counted.err, order |-> <<>>]
        ELSE LET IsZero(id) == counted.deg[id] = 0
                 ids == Kahn(SelectSeq(keys, IsZero), counted.deg, <<>>, edges)
             IN  [err |-> NoError, order |-> [i \in 1..Len(ids) |-> node_map[ids[i]]]]

\* fault: the length of the order is compared with the number of distinct ids
TopologicalSortCountsIds(nodes, edges) ==
    LET node_map == NodeMap(nodes)
        keys == IdOrder(nodes, {})
        counted == CountEdges(edges, DOMAIN node_map, [id \in DOMAIN node_map |-> 0])
    IN  IF counted.err # NoError THEN [err |-> counted.err, order |-> <<>>]
        ELSE LET IsZero(id) == counted.deg[id] = 0
                 ids == Kahn(SelectSeq(keys, IsZero), counted.deg, <<>>, edges)
                 order == [i \in 1..Len(ids) |-> node_map[ids[i]]]
             IN  IF Len(order) # Cardinality(DOMAIN node_map)
                 THEN [err |-> [kind |-> "CyclicGraph", id |-> None], order |-> <<>>]
                 ELSE [err |-> NoError, order |-> order]

\* _topological_sort: [err, order]; order is the list of nodes
TopologicalSort(nodes, edges) ==
    LET node_map == NodeMap(nodes)
        keys == IdOrder(nodes, {})
        counted == CountEdges(edges, DOMAIN node_map, [id \in DOMAIN node_map |-> 0])
    IN  IF counted.err # NoError THEN [err |-> counted.err, order |-> <<>>]
        ELSE LET IsZero(id) == counted.deg[id] = 0
                 ids == Kahn(SelectSeq(keys, IsZero), counted.deg, <<>>, edges)
                 order == [i \in 1..Len(ids) |-> node_map[ids[i]]]
             IN  IF Len(order) # Len(nodes)
                 THEN [err |-> [kind |-> "CyclicGraph", id |-> None], order |-> <<>>]
                 ELSE [err |-> NoError, order |-> order]

(***************************************************************************)
(* WorkflowEngine._merge_parent_payloads                                   *)
(***************************************************************************)
\* incoming: the sources of the edge map, in its order, that target the node
RECURSIVE Incoming(_, _)
Incoming(id, edges) ==
    IF edges = <<>> THEN <<>>
    ELSE (IF InSeq(id, Head(edges).targets) THEN <<Head(edges).source>> ELSE <<>>)
         \o Incoming(id, Tail(edges))

\* results.get(source, {})
ResultsGet(res, source) == IF source \in DOMAIN res THEN res[source] ELSE EmptyPayload

\* fault: an earlier upstream output overwrites a later one
RECURSIVE MergeAllFirstWins(_, _, _)
MergeAllFirstWins(incoming, res, merged) ==
    IF incoming = <<>> THEN merged
    ELSE MergeAllFirstWins(Tail(incoming), res,
                           Update(ResultsGet(res, Head(incoming)), merged))

RECURSIVE MergeAll(_, _, _)
MergeAll(incoming, res, merged) ==
    IF incoming = <<>> THEN merged
    ELSE MergeAll(Tail(incoming), res, Update(merged, ResultsGet(res, Head(incoming))))

MergeParentPayloads(id, edges, res) ==
    LET incoming == Incoming(id, edges)
    IN  IF incoming = <<>> THEN EmptyPayload
        ELSE MergeAll(incoming, res, EmptyPayload)

(***************************************************************************)
(* NodeRegistry                                                            *)
(***************************************************************************)
\* the type names bound in the registry
Registered == {"stub"}

(***************************************************************************)
(* Agent chain handler (bot/nodes/agent.py)                                *)
(*                                                                         *)
(* A Python value is a record [t, n, x, tr]: t is its type, n its number,  *)
(* x its text as a sequence of tokens (for a list: its string elements),   *)
(* tr the trace entries of a list of trace entries.                        *)
(***************************************************************************)
\* longest explicit step list (params["agents"])
MaxSteps == 3

PyVal(t, n, x) == [t |-> t, n |-> n, x |-> x, tr |-> <<>>]
Absent == PyVal("absent", 0, <<>>)
PyNone == PyVal("none", 0, <<>>)
StrV(x) == PyVal("str", 0, x)
IntV(n) == PyVal("int", n, <<>>)
\* a float, in tenths
FloatV(n) == PyVal("float", n, <<>>)
\* a list of strings
ListV(x) == PyVal("list", 0, x)
\* a list with an element that is not a string
ListMixed == PyVal("list_mixed", 0, <<>>)
TraceList(tr) == [t |-> "list", n |-> Len(tr), x |-> <<>>, tr |-> tr]

\* isinstance(v, str), isinstance(v, int), isinstance(v, (int, float))
IsStr(v) == v.t = "str"
IsInt(v) == v.t = "int"
IsNumber(v) == v.t \in {"int", "float"}
\* isinstance(v, list) and every element is a str
IsStrList(v) == v.t = "list"

WhitespaceTokens == {" ", "\n"}

\* output_text.strip() is truthy
NonBlank(text) == \E i \in 1..Len(text) : text[i] \notin WhitespaceTokens

\* str(value) of a payload value
PyStr(v) ==
    CASE v.t = "str" -> v.x
      [] v.t \in {"int", "float"} -> <<ToString(v.n)>>
      [] OTHER -> <<"<", v.t, ">">>

\* config.AppConfig.agent_defaults, without a config file
AgentDefaults ==
    [model |-> StrV(<<"qwen2.5:1.5b">>),
     system_prompt |-> StrV(<<"You are a helpful workflow agent.">>),
     input_field |-> StrV(<<"message">>),
     num_ctx |-> IntV(1024),
     num_predict |-> IntV(128),
     temperature |-> FloatV(2),
     tools |-> ListV(<<"calculator", "utc_time">>),
     max_tool_calls |-> IntV(6)]

\* params.get(key, default)
ParamGet(params, key, default) ==
    IF params[key].t = "absent" THEN default ELSE params[key]

\* payload.get(key)
PayloadGet(payload, key) == IF key \in DOMAIN payload THEN payload[key] ELSE PyNone

InvalidAgentConfig(msg) == [kind |-> "InvalidAgentConfig", msg |-> msg]
NoAgentError == [kind |-> None, msg |-> ""]

\* _validate_common_settings: the message of the first failing check, or ""
ValidateCommonSettings(model, input_field, num_ctx, num_predict, temperature, max_tool_calls) ==
    IF ~IsStr(model) \/ model.x = <<>>
    THEN "agent.model must be a non-empty string"
    ELSE IF ~IsStr(input_field) \/ input_field.x = <<>>
    THEN "agent.input_field must be a non-empty string"
    ELSE IF ~IsInt(num_ctx) \/ num_ctx.n <= 0
    THEN "agent.num_ctx must be a positive integer"
    ELSE IF ~IsInt(num_predict) \/ num_predict.n <= 0
    THEN "agent.num_predict must be a positive integer"
    ELSE IF ~IsNumber(temperature)
    THEN "agent.temperature must be a number"
    ELSE IF ~IsInt(max_tool_calls) \/ max_tool_calls.n <= 0
    THEN "agent.max_tool_calls must be a positive integer"
    ELSE ""

\* one entry of params["agents"]: a dict with optional keys, or not a dict
StepItem(t, name, system_prompt, model, tools) ==
    [t |-> t, name |-> name, system_prompt |-> system_prompt, model |-> model,
     tools |-> tools]

\* the body of the loop of _normalize_agent_chain for the entry at index idx
\* (0-based in the code, idx is idx + 1 here)
NormalizeEntry(item, idx, default_model, default_prompt, default_tools) ==
    LET name == IF item.name.t = "absent" THEN PyNone ELSE item.name
        given_prompt == IF item.system_prompt.t = "absent" THEN PyNone
                        ELSE item.system_prompt
        model == IF item.model.t = "absent" THEN default_model ELSE item.model
        tools == IF item.tools.t = "absent" THEN default_tools ELSE item.tools
        system_prompt == IF given_prompt.t = "none" THEN default_prompt ELSE given_prompt
    IN  IF item.t # "dict"
        THEN [err |-> "langgraph_agent.agents entries must be objects", cfg |-> <<>>]
        ELSE IF ~IsStr(model) \/ model.x = <<>>
        THEN [err |-> "Each langgraph_agent.agents[].model must be a non-empty string",
              cfg |-> <<>>]
        ELSE IF ~IsStr(system_prompt)
        THEN [err |-> "Each langgraph_agent.agents[].system_prompt must be a string",
              cfg |-> <<>>]
        ELSE IF ~IsStrList(tools)
        THEN [err |-> "Each langgraph_agent.agents[].tools must be a list of strings",
              cfg |-> <<>>]
        ELSE [err |-> "",
              cfg |-> <<[name |-> IF IsStr(name) /\ name.x # <<>> THEN name.x
                                  ELSE <<"agent_", ToString(idx)>>,
                         system_prompt |-> system_prompt.x,
                         model |-> model.x,
                         tools |-> tools.x]>>]

\* fault: the loop stops checking after the first entry
NormalizeLoopFirstOnly(items, idx, default_model, default_prompt, default_tools, normalized) ==
    LET r == NormalizeEntry(items[1], 1, default_model, default_prompt, default_tools)
    IN  IF r.err # "" THEN [err |-> r.err, chain |-> <<>>]
        ELSE [err |-> "", chain |-> r.cfg]

RECURSIVE NormalizeLoop(_, _, _, _, _, _)
NormalizeLoop(items, idx, default_model, default_prompt, default_tools, normalized) ==
    IF idx > Len(items) THEN [err |-> "", chain |-> normalized]
    ELSE LET r == NormalizeEntry(items[idx], idx, default_model, default_prompt,
                                 default_tools)
         IN  IF r.err # "" THEN [err |-> r.err, chain |-> <<>>]
             ELSE NormalizeLoop(items, idx + 1, default_model, default_prompt,
                                default_tools, normalized \o r.cfg)

\* _normalize_agent_chain: raw_agents is [t, items]
NormalizeAgentChain(raw_agents, default_model, default_prompt, default_tools) ==
    IF raw_agents.t \in {"absent", "none"} THEN [err |-> "", chain |-> <<>>]
    ELSE IF raw_agents.t # "list" \/ raw_agents.items = <<>>
    THEN [err |-> "langgraph_agent.agents must be a non-empty list", chain |-> <<>>]
    ELSE NormalizeLoop(raw_agents.items, 1, default_model, default_prompt,
                       default_tools, <<>>)

\* the prompt of a step after the first (lines 175-177)
StepTemplate(original, context) ==
    <<"Original user request:\n">> \o original
        \o <<"\n\nCurrent context from previous agents:\n">> \o context
        \o <<"\n\nContinue and improve the answer.">>

\* fault: every step is given the running context alone
StepInputContextOnly(idx, original, context) == context

\* the user prompt of the step at position idx (1-based) of a chain (lines 171-179)
StepInput(idx, original, context) ==
    IF idx = 1 THEN context ELSE StepTemplate(original, context)

\* tooling.build_agent_tools: the names bound to a tool, unknown names skipped
KnownTools == {"calculator", "utc_time", "http_get", "tavily_search"}
BuildAgentTools(tools) == LET Known(t) == t \in KnownTools IN SelectSeq(tools, Known)

\* fault: the instruction is appended whatever the tools
EffectivePromptAlways(system_prompt, tools) ==
    system_prompt \o <<"\n",
           "When asked for factual, financial, company, or current-event information, use available tools before answering. If a tool fails, say that clearly.">>

\* _run_single_agent, lines 41-47: the prompt given to the agent
EffectivePrompt(system_prompt, tools) ==
    IF InSeq("tavily_search", tools)
    THEN system_prompt \o <<"\n",
           "When asked for factual, financial, company, or current-event information, use available tools before answering. If a tool fails, say that clearly.">>
    ELSE system_prompt

\* _run_single_agent, line 62: max(8, (max_tool_calls * 2) + 2)
RecursionLimit(max_tool_calls) ==
    IF (max_tool_calls * 2) + 2 > 8 THEN (max_tool_calls * 2) + 2 ELSE 8

\* what agent.invoke is called with (lines 52-63)
Invocation(model, system_prompt, user_prompt, tools, settings) ==
    [model |-> model,
     system_prompt |-> system_prompt,
     prompt |-> EffectivePrompt(system_prompt, tools),
     user_prompt |-> user_prompt,
     tools |-> tools,
     selected_tools |-> BuildAgentTools(tools),
     num_ctx |-> settings.num_ctx,
     num_predict |-> settings.num_predict,
     temperature |-> settings.temperature,
     recursion_limit |-> RecursionLimit(settings.max_tool_calls)]

\* fault: the parts are joined without a separator
RECURSIVE JoinLinesNoSeparator(_)
JoinLinesNoSeparator(parts) ==
    IF parts = <<>> THEN <<>>
    ELSE parts[1] \o JoinLinesNoSeparator(Tail(parts))

\* "\n".join(parts)
RECURSIVE JoinLines(_)
JoinLines(parts) ==
    IF parts = <<>> THEN <<>>
    ELSE IF Len(parts) = 1 THEN parts[1]
    ELSE parts[1] \o <<"\n">> \o JoinLines(Tail(parts))

\* the texts of the parts of a content list that have a str text (lines 19-22)
RECURSIVE TextParts(_)
TextParts(content) ==
    IF content = <<>> THEN <<>>
    ELSE (IF Head(content).has_text THEN <<Head(content).text>> ELSE <<>>)
         \o TextParts(Tail(content))

\* _extract_text_from_agent_result; a result is [messages, content]: messages
\* says whether result["messages"] is a non-empty list, content is the content
\* of its last message
ExtractText(result) ==
    IF result.messages # "list" THEN <<"str(result)">>
    ELSE IF result.content.t = "str" THEN result.content.x
    ELSE IF result.content.t = "list" /\ TextParts(result.content.parts) # <<>>
    THEN JoinLines(TextParts(result.content.parts))
    ELSE <<"str(last)">>

Content(t, x, parts) == [t |-> t, x |-> x, parts |-> parts]
Part(has_text, text) == [has_text |-> has_text, text |-> text]

\* results agent.invoke may return
ModelResults ==
    {[messages |-> "list", content |-> Content("str", <<"o1">>, <<>>)],
     [messages |-> "list", content |-> Content("str", <<" ", "\n">>, <<>>)],
     [messages |-> "list",
      content |-> Content("list", <<>>,
                          <<Part(TRUE, <<"p1">>), Part(FALSE, <<>>), Part(TRUE, <<"p2">>)>>)],
     [messages |-> "list",
      content |-> Content("list", <<>>, <<Part(FALSE, <<>>)>>)],
     [messages |-> "list", content |-> Content("none", <<>>, <<>>)],
     [messages |-> "none", content |-> Content("none", <<>>, <<>>)]}

\* exceptions agent.invoke may raise
ModelExceptions == {"ImportError", "RuntimeError"}

\* entries of params["agents"]
StepItems ==
    {StepItem("dict", StrV(<<"researcher">>), StrV(<<"Find facts.">>), StrV(<<"m2">>),
              ListV(<<"tavily_search">>)),
     StepItem("dict", Absent, Absent, Absent, Absent),
     StepItem("dict", Absent, Absent, StrV(<<>>), Absent),
     StepItem("dict", Absent, IntV(5), Absent, Absent),
     StepItem("dict", Absent, Absent, Absent, StrV(<<"calculator">>)),
     StepItem("str", Absent, Absent, Absent, Absent)}

\* values of params["agents"]
AgentsValues ==
    {[t |-> "absent", items |-> <<>>], [t |-> "none", items |-> <<>>],
     [t |-> "str", items |-> <<>>]}
        \cup {[t |-> "list", items |-> items] : items \in SeqsUpTo(StepItems, MaxSteps)}

\* values of params["tools"]
ToolsValues ==
    {Absent, ListV(<<>>), ListV(<<"tavily_search", "no_such_tool">>),
     StrV(<<"calculator">>), ListMixed}

\* params without any key
NoParams ==
    [model |-> Absent, system_prompt |-> Absent, input_field |-> Absent,
     num_ctx |-> Absent, num_predict |-> Absent, temperature |-> Absent,
     max_tool_calls |-> Absent]

\* the settings of params: at most one key besides tools and agents is given
SettingsValues ==
    {NoParams}
      \cup {[NoParams EXCEPT !.model = v] :
               v \in {StrV(<<"m1">>), StrV(<<>>), IntV(5), PyNone}}
      \cup {[NoParams EXCEPT !.system_prompt = v] : v \in {StrV(<<"Be brief.">>), IntV(5)}}
      \cup {[NoParams EXCEPT !.input_field = v] :
               v \in {StrV(<<"q">>), StrV(<<>>), IntV(5)}}
      \cup {[NoParams EXCEPT !.num_ctx = v] :
               v \in {IntV(2048), IntV(0), StrV(<<"2048">>), FloatV(20480)}}
      \cup {[NoParams EXCEPT !.num_predict = v] : v \in {IntV(64), IntV(-1)}}
      \cup {[NoParams EXCEPT !.temperature = v] : v \in {IntV(1), StrV(<<"hot">>)}}
      \cup {[NoParams EXCEPT !.max_tool_calls = v] :
               v \in {IntV(1), IntV(0), FloatV(15)}}

\* the params of an agent node: besides agents, a key of the settings or the
\* tools key is given, not both
AgentParams ==
    {p \in {[settings |-> c, tools |-> t, agents |-> a] :
               c \in SettingsValues, t \in ToolsValues, a \in AgentsValues} :
        p.settings = NoParams \/ p.tools = Absent}

\* payloads passed to the agent handler
AgentPayloads ==
    {[message |-> StrV(<<"P">>)],
     [message |-> IntV(5), keep |-> StrV(<<"k">>)],
     [message |-> PyNone],
     EmptyPayload,
     [q |-> StrV(<<"Q">>), message |-> StrV(<<"P">>), agent_output |-> StrV(<<"old">>),
      agent_trace |-> StrV(<<"old">>), agent_count |-> IntV(2)]}

(***************************************************************************)
(* State of one call of WorkflowEngine.run                                 *)
(***************************************************************************)
VARIABLES
    pc,             \* "idle", "loop", "in_handler", "done", "failed"
    workflow,       \* the workflow argument
    input_data,     \* the input_data argument
    ordered_nodes,  \* the computed order
    results,        \* node id -> output payload
    pos,            \* index into ordered_nodes of the for loop
    parent_payload, \* the payload passed to the handler in progress
    events,         \* log of handler calls, returns and failures
    failure,        \* the exception run raised, or NoError
    returned        \* the payload run returned, or NoReturn

(***************************************************************************)
(* State of one call of langgraph_agent_handler                            *)
(***************************************************************************)
VARIABLES
    apc,             \* "idle", "ready", "invoking", "finishing", "done", "failed"
    agent_params,    \* the params argument
    agent_payload,   \* the payload argument
    agent_settings,  \* the validated node-level settings (lines 135-151)
    agent_chain,     \* the normalized step list; empty in single-step mode
    original_input,  \* str(prompt_value)
    running_context, \* the context carried between the steps of a chain
    step,            \* position in agent_chain of the current step (idx + 1)
    output_text,     \* the text of the last invocation, then the final output
    trace,           \* the trace entries appended so far
    invocations,     \* log of the calls of agent.invoke
    outputs,         \* log of the texts _run_single_agent returned (line 64)
    agent_failure,   \* the exception the handler raised, or NoAgentError
    agent_result,    \* the payload the handler returned (merged)
    agent_call       \* the handler the node type is bound to, and its params

(***************************************************************************)
(* State of one NodeRegistry (bot/nodes/base.py)                           *)
(***************************************************************************)
VARIABLES
    registry_nodes,  \* NodeRegistry._nodes: type name -> NodeSpec
    register_calls,  \* log of the specs passed to register
    lookup           \* the last call of get: its argument, the number of
                     \* register calls before it, and its outcome

(***************************************************************************)
(* State of the calls of WorkflowEngine.run that run concurrently on one   *)
(* engine                                                                  *)
(***************************************************************************)
VARIABLES
    runs             \* run id -> the locals of that call of run

(***************************************************************************)
(* State of the HTTP layer (bot/api.py) and of its store (bot/store.py)    *)
(***************************************************************************)
VARIABLES
    workflows,       \* table workflows: id -> definition
    executions,      \* table executions: id -> row
    requests         \* request id -> the locals of the endpoint call serving it

engineVars == <<pc, workflow, input_data, ordered_nodes, results, pos, parent_payload,
                events, failure, returned>>

agentVars == <<apc, agent_params, agent_payload, agent_settings, agent_chain, original_input,
               running_context, step, output_text, trace, invocations, outputs,
               agent_failure, agent_result, agent_call>>

registryVars == <<registry_nodes, register_calls, lookup>>

runsVars == <<runs>>

apiVars == <<workflows, executions, requests>>

vars == <<engineVars, agentVars, registryVars, runsVars, apiVars>>

\* no run is in progress
EngineIdle ==
    /\ pc = "idle"
    /\ workflow = [nodes |-> <<>>, edges |-> <<>>]
    /\ input_data = EmptyPayload
    /\ ordered_nodes = <<>>
    /\ results = EmptyPayload
    /\ pos = 1
    /\ parent_payload = EmptyPayload
    /\ events = <<>>
    /\ failure = NoError
    /\ returned = NoReturn

NoSettings ==
    [model |-> <<>>, system_prompt |-> <<>>, input_field |-> <<>>, num_ctx |-> 0,
     num_predict |-> 0, temperature |-> 0, tools |-> <<>>, max_tool_calls |-> 0]

\* no agent handler call is in progress
AgentIdle ==
    /\ apc = "idle"
    /\ agent_params = [settings |-> NoParams, tools |-> Absent,
                 agents |-> [t |-> "absent", items |-> <<>>]]
    /\ agent_payload = EmptyPayload
    /\ agent_settings = NoSettings
    /\ agent_chain = <<>>
    /\ original_input = <<>>
    /\ running_context = <<>>
    /\ step = 1
    /\ output_text = <<>>
    /\ trace = <<>>
    /\ invocations = <<>>
    /\ outputs = <<>>
    /\ agent_failure = NoAgentError
    /\ agent_result = EmptyPayload
    /\ agent_call = [handler |-> "langgraph_agent", params |-> agent_params]

\* NodeSpec: type_name, handler (the description plays no part in a lookup)
NoSpec == [type_name |-> None, handler |-> None]

NoLookup == [called |-> FALSE, type_name |-> None, at |-> 0, err |-> None, spec |-> NoSpec]

\* NodeRegistry.__init__: no type is registered
RegistryEmpty ==
    /\ registry_nodes = <<>>
    /\ register_calls = <<>>
    /\ lookup = NoLookup

\* the ids of the concurrent calls of run
RunIds == {1, 2}

\* the locals of a call of run that has not started
IdleRun ==
    [pc |-> "idle", workflow |-> [nodes |-> <<>>, edges |-> <<>>],
     input_data |-> EmptyPayload, ordered_nodes |-> <<>>, results |-> EmptyPayload,
     pos |-> 1, parent_payload |-> EmptyPayload, failure |-> NoError,
     returned |-> NoReturn]

RunsIdle == runs = [r \in RunIds |-> IdleRun]

\* the requests served concurrently
ReqIds == {1, 2, 3}

\* a column that is NULL: no result, no error text
NoText == [has |-> FALSE, text |-> ""]

\* models.ExecutionRecord, without its timestamps; also a row of executions
NoExecution == [workflow_id |-> None, status |-> None, result |-> NoReturn, error |-> NoText]

NoResponse == [code |-> 0, detail |-> "", body |-> NoExecution]

\* the locals of an endpoint call that has not begun; statuses is the log of
\* the statuses written to the execution row the call created
IdleRequest ==
    [pc |-> "idle", endpoint |-> None, workflow_id |-> None, definition |-> None,
     result |-> NoReturn, exc |-> NoText, response |-> NoResponse, statuses |-> <<>>]

\* SQLiteStore._init_db on a new database file, no request being served
ApiIdle ==
    /\ workflows = <<>>
    /\ executions = <<>>
    /\ requests = [r \in ReqIds |-> IdleRequest]

Init == EngineIdle /\ AgentIdle /\ RegistryEmpty /\ RunsIdle /\ ApiIdle

\* fault: the types of all nodes are looked up before the first node runs
RunStartPrevalidated(wf, input) ==
    /\ pc = "idle"
    /\ workflow' = wf
    /\ input_data' = input
    /\ LET sorted == TopologicalSort(wf.nodes, wf.edges)
           unknown == {i \in 1..Len(sorted.order) : sorted.order[i].type \notin Registered}
       IN  IF sorted.err # NoError
           THEN /\ pc' = "failed"
                /\ failure' = sorted.err
                /\ ordered_nodes' = <<>>
           ELSE IF unknown # {}
           THEN /\ pc' = "failed"
                /\ failure' = [kind |-> "HandlerNotFound",
                               id |-> sorted.order[CHOOSE i \in unknown : \A j \in unknown : i <= j].id]
                /\ ordered_nodes' = sorted.order
           ELSE /\ pc' = "loop"
                /\ failure' = NoError
                /\ ordered_nodes' = sorted.order
    /\ results' = EmptyPayload
    /\ pos' = 1
    /\ UNCHANGED <<parent_payload, events, returned>>
    /\ UNCHANGED <<agentVars, registryVars, runsVars, apiVars>>

\* run is called: line 15 sorts, line 16 creates the output map
RunStart(wf, input) ==
    /\ pc = "idle"
    /\ workflow' = wf
    /\ input_data' = input
    /\ LET sorted == TopologicalSort(wf.nodes, wf.edges)
       IN  IF sorted.err # NoError
           THEN /\ pc' = "failed"
                /\ failure' = sorted.err
                /\ ordered_nodes' = <<>>
           ELSE /\ pc' = "loop"
                /\ failure' = NoError
                /\ ordered_nodes' = sorted.order
    /\ results' = EmptyPayload
    /\ pos' = 1
    /\ UNCHANGED <<parent_payload, events, returned>>
    /\ UNCHANGED <<agentVars, registryVars, runsVars, apiVars>>

\* run(workflow, input_data) is called with some workflow and input
Run ==
    /\ pc = "idle"
    /\ \E wf \in Workflow, input \in InputPayloads : RunStart(wf, input)

\* lines 19-21: the payload passed to the node
ResolveInput(node, edges, res, input) ==
    LET merged == MergeParentPayloads(node.id, edges, res)
    IN  IF DOMAIN merged = {} THEN input ELSE merged

\* lines 18-24, up to the call of the handler
Dispatch ==
    /\ pc = "loop"
    /\ pos <= Len(ordered_nodes)
    /\ LET node == ordered_nodes[pos]
           payload == ResolveInput(node, workflow.edges, results, input_data)
       IN  IF node.type \notin Registered
           THEN /\ pc' = "failed"
                /\ failure' = [kind |-> "HandlerNotFound", id |-> node.id]
                /\ UNCHANGED <<parent_payload, events>>
           ELSE /\ pc' = "in_handler"
                /\ parent_payload' = payload
                /\ events' = Append(events,
                       [kind |-> "call", id |-> node.id, payload |-> payload])
                /\ UNCHANGED failure
    /\ UNCHANGED <<workflow, input_data, ordered_nodes, results, pos, returned>>
    /\ UNCHANGED <<agentVars, registryVars, runsVars, apiVars>>

\* fault: the loop does not move on to the next node
HandlerReturnNoAdvance(out) ==
    /\ pc = "in_handler"
    /\ results' = Store(results, ordered_nodes[pos].id, out)
    /\ events' = Append(events,
           [kind |-> "return", id |-> ordered_nodes[pos].id, payload |-> out])
    /\ pc' = "loop"
    /\ UNCHANGED <<workflow, input_data, ordered_nodes, pos, parent_payload, failure,
                   returned>>
    /\ UNCHANGED <<agentVars, registryVars, runsVars, apiVars>>

\* line 24: the handler returns a payload, stored under the node's id
HandlerReturn(out) ==
    /\ pc = "in_handler"
    /\ results' = Store(results, ordered_nodes[pos].id, out)
    /\ events' = Append(events,
           [kind |-> "return", id |-> ordered_nodes[pos].id, payload |-> out])
    /\ pos' = pos + 1
    /\ pc' = "loop"
    /\ UNCHANGED <<workflow, input_data, ordered_nodes, parent_payload, failure,
                   returned>>
    /\ UNCHANGED <<agentVars, registryVars, runsVars, apiVars>>

\* fault: run catches the handler's exception and goes on with the next node
HandlerRaiseSwallowed ==
    /\ pc = "in_handler"
    /\ events' = Append(events,
           [kind |-> "raise", id |-> ordered_nodes[pos].id, payload |-> EmptyPayload])
    /\ pos' = pos + 1
    /\ pc' = "loop"
    /\ UNCHANGED <<workflow, input_data, ordered_nodes, results, parent_payload, failure,
                   returned>>
    /\ UNCHANGED <<agentVars, registryVars, runsVars, apiVars>>

\* line 24: the handler raises, run does not catch
HandlerRaise ==
    /\ pc = "in_handler"
    /\ events' = Append(events,
           [kind |-> "raise", id |-> ordered_nodes[pos].id, payload |-> EmptyPayload])
    /\ failure' = [kind |-> "HandlerFailure", id |-> ordered_nodes[pos].id]
    /\ pc' = "failed"
    /\ UNCHANGED <<workflow, input_data, ordered_nodes, results, pos, parent_payload,
                   returned>>
    /\ UNCHANGED <<agentVars, registryVars, runsVars, apiVars>>

\* fault: the output of the first node of the order is returned
RunResultFirst(order, res, input) ==
    IF order = <<>> THEN input ELSE res[order[1].id]

\* fault: an empty workflow returns an empty payload
RunResultEmptyDict(order, res, input) ==
    IF order = <<>> THEN EmptyPayload ELSE res[order[Len(order)].id]

\* lines 26-29: the value run returns
RunResult(order, res, input) ==
    IF order = <<>> THEN input ELSE res[order[Len(order)].id]

Finish ==
    /\ pc = "loop"
    /\ pos > Len(ordered_nodes)
    /\ returned' = [has |-> TRUE, value |-> RunResult(ordered_nodes, results, input_data)]
    /\ pc' = "done"
    /\ UNCHANGED <<workflow, input_data, ordered_nodes, results, pos, parent_payload,
                   events, failure>>
    /\ UNCHANGED <<agentVars, registryVars, runsVars, apiVars>>

Next ==
    \/ Run
    \/ Dispatch
    \/ \E out \in HandlerOutputs : HandlerReturn(out)
    \/ HandlerRaise
    \/ Finish

Spec == Init /\ [][Next]_vars

(***************************************************************************)
(* langgraph_agent_handler                                                 *)
(***************************************************************************)
\* float(temperature), in tenths
ToFloat(v) == IF v.t = "int" THEN v.n * 10 ELSE v.n

MissingCapability ==
    [kind |-> "MissingCapability",
     msg |-> "Missing agent dependencies. Install with: uv add langgraph langchain-ollama"]

\* lines 134-164: defaults, validation, chain normalization, input field
AgentCallOutcome(p, pl) ==
    LET d == AgentDefaults
        model == ParamGet(p.settings, "model", d.model)
        system_prompt == ParamGet(p.settings, "system_prompt", d.system_prompt)
        input_field == ParamGet(p.settings, "input_field", d.input_field)
        num_ctx == ParamGet(p.settings, "num_ctx", d.num_ctx)
        num_predict == ParamGet(p.settings, "num_predict", d.num_predict)
        temperature == ParamGet(p.settings, "temperature", d.temperature)
        tools == IF p.tools.t = "absent" THEN d.tools ELSE p.tools
        max_tool_calls == ParamGet(p.settings, "max_tool_calls", d.max_tool_calls)
        invalid ==
            IF ~IsStr(system_prompt) THEN "langgraph_agent.system_prompt must be a string"
            ELSE IF ~IsStrList(tools)
            THEN "langgraph_agent.tools must be a list of tool names"
            ELSE ValidateCommonSettings(model, input_field, num_ctx, num_predict,
                                        temperature, max_tool_calls)
        norm == NormalizeAgentChain(p.agents, model, system_prompt, tools)
        prompt_value == PayloadGet(pl, input_field.x[1])
        Fail(e) == [err |-> e, settings |-> NoSettings, chain |-> <<>>, original |-> <<>>]
    IN  IF invalid # "" THEN Fail(InvalidAgentConfig(invalid))
        ELSE IF norm.err # "" THEN Fail(InvalidAgentConfig(norm.err))
        ELSE IF prompt_value.t = "none"
        THEN Fail([kind |-> "MissingInputField", msg |-> input_field.x[1]])
        ELSE [err |-> NoAgentError,
              settings |-> [model |-> model.x,
                            system_prompt |-> system_prompt.x,
                            input_field |-> input_field.x,
                            num_ctx |-> num_ctx.n,
                            num_predict |-> num_predict.n,
                            temperature |-> ToFloat(temperature),
                            tools |-> tools.x,
                            max_tool_calls |-> max_tool_calls.n],
              chain |-> norm.chain,
              original |-> PyStr(prompt_value)]

\* the handler is called: lines 134-169
AgentCall(p, pl) ==
    /\ apc = "idle"
    /\ agent_params' = p
    /\ agent_payload' = pl
    /\ LET r == AgentCallOutcome(p, pl)
       IN  /\ agent_failure' = r.err
           /\ apc' = IF r.err # NoAgentError THEN "failed" ELSE "ready"
           /\ agent_settings' = r.settings
           /\ agent_chain' = r.chain
           /\ original_input' = r.original
           /\ running_context' = r.original
    /\ step' = 1
    /\ UNCHANGED <<output_text, trace, invocations, outputs, agent_result>>
    /\ UNCHANGED <<engineVars, registryVars, runsVars, apiVars>>

\* langgraph_agent_handler(params, payload) is called with some params and payload
Handle ==
    /\ apc = "idle"
    /\ \E p \in AgentParams, pl \in AgentPayloads :
           /\ AgentCall(p, pl)
           /\ agent_call' = [handler |-> "langgraph_agent", params |-> p]

\* fault: every step of a chain runs with the node-level model
StepInvocationNodeModel ==
    IF agent_chain # <<>>
    THEN Invocation(agent_settings.model, agent_chain[step].system_prompt,
                    StepInput(step, original_input, running_context),
                    agent_chain[step].tools, agent_settings)
    ELSE Invocation(agent_settings.model, agent_settings.system_prompt, original_input,
                    agent_settings.tools, agent_settings)

\* the arguments of _run_single_agent for the step about to run
\* (lines 180-189 in a chain, lines 202-211 in single-step mode)
StepInvocation ==
    IF agent_chain # <<>>
    THEN Invocation(agent_chain[step].model, agent_chain[step].system_prompt,
                    StepInput(step, original_input, running_context),
                    agent_chain[step].tools, agent_settings)
    ELSE Invocation(agent_settings.model, agent_settings.system_prompt, original_input,
                    agent_settings.tools, agent_settings)

\* _run_single_agent up to the call of agent.invoke (lines 40-63)
AgentInvoke ==
    /\ apc = "ready"
    /\ invocations' = Append(invocations, StepInvocation)
    /\ apc' = "invoking"
    /\ UNCHANGED <<agent_call, agent_params, agent_payload, agent_settings, agent_chain,
                   original_input, running_context, step, output_text, trace, outputs,
                   agent_failure, agent_result>>
    /\ UNCHANGED <<engineVars, registryVars, runsVars, apiVars>>

\* lines 49-50 raise ImportError: langgraph or langchain-ollama is not installed
ImportFails ==
    /\ apc = "ready"
    /\ agent_failure' = MissingCapability
    /\ apc' = "failed"
    /\ UNCHANGED <<agent_call, agent_params, agent_payload, agent_settings, agent_chain,
                   original_input, running_context, step, output_text, trace,
                   invocations, outputs, agent_result>>
    /\ UNCHANGED <<engineVars, registryVars, runsVars, apiVars>>

\* fault: the context is replaced by every output, blank or not
NextContextAlways(context, text) == text

\* the context after a step returned text (lines 190-191)
NextContext(context, text) == IF NonBlank(text) THEN text ELSE context

\* the trace entry of a step (lines 192-199)
TraceEntry(agent_cfg, text) ==
    [name |-> agent_cfg.name, model |-> agent_cfg.model, tools |-> agent_cfg.tools,
     output |-> text]

\* agent.invoke returns: line 64, then lines 190-200 or line 212
InvokeReturns(result) ==
    /\ apc = "invoking"
    /\ LET text == ExtractText(result)
       IN  /\ outputs' = Append(outputs, text)
           /\ IF agent_chain # <<>>
              THEN /\ running_context' = NextContext(running_context, text)
                   /\ trace' = Append(trace, TraceEntry(agent_chain[step], text))
                   /\ step' = step + 1
                   /\ IF step < Len(agent_chain)
                      THEN /\ apc' = "ready"
                           /\ output_text' = text
                      ELSE /\ apc' = "finishing"
                           /\ output_text' = NextContext(running_context, text)
              ELSE /\ output_text' = text
                   /\ trace' = <<>>
                   /\ apc' = "finishing"
                   /\ UNCHANGED <<running_context, step>>
    /\ UNCHANGED <<agent_call, agent_params, agent_payload, agent_settings, agent_chain,
                   original_input, invocations, agent_failure, agent_result>>
    /\ UNCHANGED <<engineVars, registryVars, runsVars, apiVars>>

\* fault: the failure is noted and the step is invoked again
InvokeRaisesRetry(exc) ==
    /\ apc = "invoking"
    /\ agent_failure' = IF exc = "ImportError" THEN MissingCapability
                        ELSE [kind |-> exc, msg |-> "raised by agent.invoke"]
    /\ apc' = "ready"
    /\ UNCHANGED <<agent_call, agent_params, agent_payload, agent_settings, agent_chain,
                   original_input, running_context, step, output_text, trace,
                   invocations, outputs, agent_result>>
    /\ UNCHANGED <<engineVars, registryVars, runsVars, apiVars>>

\* agent.invoke raises: an ImportError is turned into the missing-dependency
\* RuntimeError (lines 213-216), anything else propagates
InvokeRaises(exc) ==
    /\ apc = "invoking"
    /\ agent_failure' = IF exc = "ImportError" THEN MissingCapability
                        ELSE [kind |-> exc, msg |-> "raised by agent.invoke"]
    /\ apc' = "failed"
    /\ UNCHANGED <<agent_call, agent_params, agent_payload, agent_settings, agent_chain,
                   original_input, running_context, step, output_text, trace,
                   invocations, outputs, agent_result>>
    /\ UNCHANGED <<engineVars, registryVars, runsVars, apiVars>>

\* fault: the trace and the step count are added in single-step mode too
MergedTraceAlways(pl, text, cfg, tools, tr) ==
    Update(pl, [agent_output |-> StrV(text),
                agent_model |-> StrV(cfg.model),
                agent_num_ctx |-> IntV(cfg.num_ctx),
                agent_num_predict |-> IntV(cfg.num_predict),
                agent_tools |-> tools,
                agent_trace |-> TraceList(tr),
                agent_count |-> IntV(Len(tr))])

\* fault: the result holds the added fields only
MergedAddedOnly(pl, text, cfg, tools, tr) ==
    [agent_output |-> StrV(text),
     agent_model |-> StrV(cfg.model),
     agent_num_ctx |-> IntV(cfg.num_ctx),
     agent_num_predict |-> IntV(cfg.num_predict),
     agent_tools |-> tools]

\* lines 218-227: the returned payload
Merged(pl, text, cfg, tools, tr) ==
    LET base == [agent_output |-> StrV(text),
                 agent_model |-> StrV(cfg.model),
                 agent_num_ctx |-> IntV(cfg.num_ctx),
                 agent_num_predict |-> IntV(cfg.num_predict),
                 agent_tools |-> tools]
        added == IF tr # <<>>
                 THEN Update(base, [agent_trace |-> TraceList(tr),
                                    agent_count |-> IntV(Len(tr))])
                 ELSE base
    IN  Update(pl, added)

\* app_config.multi_agent_defaults(), with the fallback of every option
MultiAgentDefaults ==
    [model |-> StrV(<<"qwen2.5:1.5b">>),
     input_field |-> StrV(<<"message">>),
     num_ctx |-> IntV(1024),
     num_predict |-> IntV(128),
     temperature |-> FloatV(2),
     max_tool_calls |-> IntV(4),
     agents |-> [t |-> "list",
                 items |-> <<StepItem("dict", StrV(<<"researcher">>),
                                      StrV(<<"Find facts and references. Prefer tool usage.">>),
                                      Absent, ListV(<<"tavily_search">>)),
                             StepItem("dict", StrV(<<"synthesizer">>),
                                      StrV(<<"Create a concise final answer from prior agent outputs.">>),
                                      Absent, ListV(<<"calculator", "utc_time">>))>>]]

\* multi_agent_handler, lines 233-240: proxy_params, a copy of params in
\* which every key of the defaults that is missing is set (setdefault keeps
\* a key that is present, a None value included)
ProxyParams(p) ==
    LET d == MultiAgentDefaults
    IN  [settings |-> [model |-> ParamGet(p.settings, "model", d.model),
                       system_prompt |-> p.settings.system_prompt,
                       input_field |-> ParamGet(p.settings, "input_field", d.input_field),
                       num_ctx |-> ParamGet(p.settings, "num_ctx", d.num_ctx),
                       num_predict |-> ParamGet(p.settings, "num_predict", d.num_predict),
                       temperature |-> ParamGet(p.settings, "temperature", d.temperature),
                       max_tool_calls |-> ParamGet(p.settings, "max_tool_calls",
                                                   d.max_tool_calls)],
         tools |-> p.tools,
         agents |-> IF p.agents.t = "absent" THEN d.agents ELSE p.agents]

\* the params and payloads the multi_agent node is called with
MultiAgentParams ==
    {p \in AgentParams : p.tools \in {Absent, ListV(<<>>)}}

MultiAgentPayloads ==
    AgentPayloads \cup {[message |-> StrV(<<"P">>), agent_trace |-> StrV(<<"old">>)]}

\* multi_agent_handler(params, payload) is called: lines 232-241
MultiAgentHandle ==
    /\ apc = "idle"
    /\ \E p \in MultiAgentParams, pl \in MultiAgentPayloads :
           /\ AgentCall(ProxyParams(p), pl)
           /\ agent_call' = [handler |-> "multi_agent", params |-> p]

\* multi_agent_handler, lines 242-246: the fields added to the agent's result
MultiAgentResult(merged) ==
    LET with_output == Update(merged, [multi_agent_output |-> merged["agent_output"]])
    IN  IF "agent_trace" \in DOMAIN merged
        THEN Update(with_output,
                    [multi_agent_trace |-> merged["agent_trace"],
                     multi_agent_count |-> IF "agent_count" \in DOMAIN merged
                                           THEN merged["agent_count"] ELSE IntV(0)])
        ELSE with_output

AgentFinish ==
    /\ apc = "finishing"
    /\ LET merged == Merged(agent_payload, output_text, agent_settings,
                            IF agent_params.tools.t = "absent" THEN AgentDefaults.tools
                            ELSE agent_params.tools,
                            trace)
       IN  agent_result' = IF agent_call.handler = "multi_agent"
                           THEN MultiAgentResult(merged) ELSE merged
    /\ apc' = "done"
    /\ UNCHANGED <<agent_call, agent_params, agent_payload, agent_settings, agent_chain,
                   original_input, running_context, step, output_text, trace,
                   invocations, outputs, agent_failure>>
    /\ UNCHANGED <<engineVars, registryVars, runsVars, apiVars>>

AgentNext ==
    \/ Handle
    \/ AgentInvoke
    \/ ImportFails
    \/ \E result \in ModelResults : InvokeReturns(result)
    \/ \E exc \in ModelExceptions : InvokeRaises(exc)
    \/ AgentFinish

AgentSpec == Init /\ [][AgentNext]_vars

\* the multi_agent node type: the same handler behind multi_agent_handler
MultiAgentNext ==
    \/ MultiAgentHandle
    \/ AgentInvoke
    \/ ImportFails
    \/ \E result \in ModelResults : InvokeReturns(result)
    \/ \E exc \in ModelExceptions : InvokeRaises(exc)
    \/ AgentFinish

MultiAgentSpec == Init /\ [][MultiAgentNext]_vars

(***************************************************************************)
(* NodeRegistry (bot/nodes/base.py)                                        *)
(***************************************************************************)
\* largest number of register calls on one registry
MaxRegisters == 4

TypeNames == {"t1", "t2"}
Handlers == {"h1", "h2"}

NodeSpec == [type_name : TypeNames, handler : Handlers]

\* fault: a type name that is bound keeps its first spec
RegisterKeepFirst(spec) ==
    /\ Len(register_calls) < MaxRegisters
    /\ registry_nodes' = IF spec.type_name \in DOMAIN registry_nodes THEN registry_nodes
                         ELSE Store(registry_nodes, spec.type_name, spec)
    /\ register_calls' = Append(register_calls, spec)
    /\ UNCHANGED lookup
    /\ UNCHANGED <<engineVars, agentVars, runsVars, apiVars>>

\* register: self._nodes[spec.type_name] = spec
Register(spec) ==
    /\ Len(register_calls) < MaxRegisters
    /\ registry_nodes' = Store(registry_nodes, spec.type_name, spec)
    /\ register_calls' = Append(register_calls, spec)
    /\ UNCHANGED lookup
    /\ UNCHANGED <<engineVars, agentVars, runsVars, apiVars>>

\* get: KeyError for a type name that is not a key of _nodes, else its spec
Get(type_name) ==
    /\ lookup' = IF type_name \notin DOMAIN registry_nodes
                 THEN [called |-> TRUE, type_name |-> type_name,
                       at |-> Len(register_calls), err |-> "NotFound", spec |-> NoSpec]
                 ELSE [called |-> TRUE, type_name |-> type_name,
                       at |-> Len(register_calls), err |-> None,
                       spec |-> registry_nodes[type_name]]
    /\ UNCHANGED <<registry_nodes, register_calls>>
    /\ UNCHANGED <<engineVars, agentVars, runsVars, apiVars>>

RegistryNext ==
    \/ \E spec \in NodeSpec : Register(spec)
    \/ \E type_name \in TypeNames : Get(type_name)

RegistrySpec == Init /\ [][RegistryNext]_vars

(***************************************************************************)
(* Concurrent calls of WorkflowEngine.run on one engine, with the built-in *)
(* handlers that compute their output from params and payload alone        *)
(***************************************************************************)
\* builtin.manual_trigger_handler
ManualTriggerHandler(params, payload) == payload

\* builtin.set_fields_handler, for params whose fields is a dict
SetFieldsHandler(params, payload) == Update(payload, params.fields)

\* the types the engine's registry binds (register_builtin_nodes), of those used
BuiltinTypes == {"manual_trigger", "set_fields"}

\* handler(node.params, parent_payload) for the handler the registry binds
CallHandler(type, params, payload) ==
    IF type = "manual_trigger" THEN ManualTriggerHandler(params, payload)
    ELSE SetFieldsHandler(params, payload)

\* models.Node with params
ParamNode(id, type, fields) == [id |-> id, type |-> type, params |-> [fields |-> fields]]

\* workflows run concurrently: a chain, a join of two branches, a single node,
\* a node of a type without handler after a first node, and a cycle
ConcurrentWorkflows ==
    {[nodes |-> <<ParamNode("a", "manual_trigger", EmptyPayload),
                  ParamNode("b", "set_fields", [x |-> 1])>>,
      edges |-> <<[source |-> "a", targets |-> <<"b">>]>>],
     [nodes |-> <<ParamNode("a", "set_fields", [y |-> 2]),
                  ParamNode("b", "manual_trigger", EmptyPayload),
                  ParamNode("c", "set_fields", [x |-> 3])>>,
      edges |-> <<[source |-> "a", targets |-> <<"c">>],
                  [source |-> "b", targets |-> <<"c">>]>>],
     [nodes |-> <<ParamNode("b", "set_fields", [x |-> 5])>>, edges |-> <<>>],
     [nodes |-> <<ParamNode("a", "manual_trigger", EmptyPayload),
                  ParamNode("b", "ghost", EmptyPayload)>>,
      edges |-> <<[source |-> "a", targets |-> <<"b">>]>>],
     [nodes |-> <<ParamNode("a", "manual_trigger", EmptyPayload)>>,
      edges |-> <<[source |-> "a", targets |-> <<"a">>]>>]}

\* input payloads of the concurrent runs
ConcurrentInputs == {EmptyPayload, [w |-> 7], [u |-> 1]}

\* run r is called: lines 15-16
StartRun(r, wf, input) ==
    /\ runs[r].pc = "idle"
    /\ LET sorted == TopologicalSort(wf.nodes, wf.edges)
       IN  runs' = [runs EXCEPT ![r] =
                       [IdleRun EXCEPT
                           !.workflow = wf,
                           !.input_data = input,
                           !.pc = IF sorted.err # NoError THEN "failed" ELSE "loop",
                           !.failure = sorted.err,
                           !.ordered_nodes = sorted.order]]
    /\ UNCHANGED <<engineVars, agentVars, registryVars, apiVars>>

RunBegins(r) ==
    /\ runs[r].pc = "idle"
    /\ \E wf \in ConcurrentWorkflows, input \in ConcurrentInputs : StartRun(r, wf, input)

\* run r: lines 18-23, up to the call of the handler
RunDispatch(r) ==
    /\ runs[r].pc = "loop"
    /\ runs[r].pos <= Len(runs[r].ordered_nodes)
    /\ LET me == runs[r]
           node == me.ordered_nodes[me.pos]
       IN  runs' = [runs EXCEPT ![r] =
                       IF node.type \notin BuiltinTypes
                       THEN [me EXCEPT !.pc = "failed",
                                       !.failure = [kind |-> "HandlerNotFound",
                                                    id |-> node.id]]
                       ELSE [me EXCEPT !.pc = "in_handler",
                                       !.parent_payload =
                                           ResolveInput(node, me.workflow.edges,
                                                        me.results, me.input_data)]]
    /\ UNCHANGED <<engineVars, agentVars, registryVars, apiVars>>

\* fault: the output map is a field of the engine, one for all runs
RunHandlerSharedMap(r) ==
    /\ runs[r].pc = "in_handler"
    /\ LET me == runs[r]
           node == me.ordered_nodes[me.pos]
           out == CallHandler(node.type, node.params, me.parent_payload)
       IN  runs' = [q \in RunIds |->
                       IF q = r
                       THEN [me EXCEPT !.results = Store(me.results, node.id, out),
                                       !.pos = me.pos + 1,
                                       !.pc = "loop"]
                       ELSE [runs[q] EXCEPT !.results = Store(runs[q].results, node.id, out)]]
    /\ UNCHANGED <<engineVars, agentVars, registryVars, apiVars>>

\* run r: line 24, the handler returns and its output is stored in r's map
RunHandler(r) ==
    /\ runs[r].pc = "in_handler"
    /\ LET me == runs[r]
           node == me.ordered_nodes[me.pos]
           out == CallHandler(node.type, node.params, me.parent_payload)
       IN  runs' = [runs EXCEPT ![r] =
                       [me EXCEPT !.results = Store(me.results, node.id, out),
                                  !.pos = me.pos + 1,
                                  !.pc = "loop"]]
    /\ UNCHANGED <<engineVars, agentVars, registryVars, apiVars>>

\* run r: lines 26-29
RunFinish(r) ==
    /\ runs[r].pc = "loop"
    /\ runs[r].pos > Len(runs[r].ordered_nodes)
    /\ runs' = [runs EXCEPT ![r] =
                    [runs[r] EXCEPT
                        !.returned = [has |-> TRUE,
                                      value |-> RunResult(runs[r].ordered_nodes,
                                                          runs[r].results,
                                                          runs[r].input_data)],
                        !.pc = "done"]]
    /\ UNCHANGED <<engineVars, agentVars, registryVars, apiVars>>

ConcurrentNext ==
    \E r \in RunIds :
        \/ RunBegins(r)
        \/ RunDispatch(r)
        \/ RunHandler(r)
        \/ RunFinish(r)

ConcurrentSpec == Init /\ [][ConcurrentNext]_vars

(***************************************************************************)
(* The endpoints create_workflow and run_workflow (bot/api.py) over the    *)
(* SQLite store (bot/store.py); every store method is one transaction      *)
(***************************************************************************)
WorkflowIds == {"w1", "w2"}

\* Workflow.model_dump_json() of the workflows posted
Definitions == {"d1", "d2"}

\* what engine.run may return, and str(exc) of what it may raise
EngineResults == HandlerOutputs
EngineErrors == {"Workflow graph has a cycle", "'Unknown node type: ghost'"}

Respond(code, detail, body) == [code |-> code, detail |-> detail, body |-> body]

\* create_workflow, line 64-66: the lookup, and the 409 when the id is stored
CreateWorkflowLookup(r, id, definition) ==
    /\ requests[r].pc = "idle"
    /\ requests' = [requests EXCEPT ![r] =
                        IF id \in DOMAIN workflows
                        THEN [@ EXCEPT !.endpoint = "create_workflow",
                                       !.workflow_id = id,
                                       !.definition = definition,
                                       !.response = Respond(409, "Workflow id already exists",
                                                            NoExecution),
                                       !.pc = "done"]
                        ELSE [@ EXCEPT !.endpoint = "create_workflow",
                                       !.workflow_id = id,
                                       !.definition = definition,
                                       !.pc = "inserting"]]
    /\ UNCHANGED <<workflows, executions>>
    /\ UNCHANGED <<engineVars, agentVars, registryVars, runsVars>>

CreateWorkflowBegins(r) ==
    /\ requests[r].pc = "idle"
    /\ \E id \in WorkflowIds, definition \in Definitions :
           CreateWorkflowLookup(r, id, definition)

\* create_workflow, line 67: store.create_workflow; the INSERT of an id that
\* is stored violates the primary key, sqlite3.IntegrityError is not caught
CreateWorkflowInsert(r) ==
    /\ requests[r].pc = "inserting"
    /\ IF requests[r].workflow_id \in DOMAIN workflows
       THEN /\ requests' = [requests EXCEPT
                               ![r].response = Respond(500, "sqlite3.IntegrityError",
                                                       NoExecution),
                               ![r].pc = "done"]
            /\ UNCHANGED workflows
       ELSE /\ workflows' = Store(workflows, requests[r].workflow_id,
                                  requests[r].definition)
            /\ requests' = [requests EXCEPT ![r].response = Respond(200, "", NoExecution),
                                            ![r].pc = "done"]
    /\ UNCHANGED executions
    /\ UNCHANGED <<engineVars, agentVars, registryVars, runsVars>>

\* run_workflow, lines 101-103: the lookup, and the 404 for an unknown id
RunWorkflowLookup(r, id) ==
    /\ requests[r].pc = "idle"
    /\ requests' = [requests EXCEPT ![r] =
                        IF id \notin DOMAIN workflows
                        THEN [@ EXCEPT !.endpoint = "run_workflow",
                                       !.workflow_id = id,
                                       !.response = Respond(404, "Workflow not found",
                                                            NoExecution),
                                       !.pc = "done"]
                        ELSE [@ EXCEPT !.endpoint = "run_workflow",
                                       !.workflow_id = id,
                                       !.definition = workflows[id],
                                       !.pc = "found"]]
    /\ UNCHANGED <<workflows, executions>>
    /\ UNCHANGED <<engineVars, agentVars, registryVars, runsVars>>

RunWorkflowBegins(r) ==
    /\ requests[r].pc = "idle"
    /\ \E id \in WorkflowIds : RunWorkflowLookup(r, id)

\* store.create_execution (line 105): a new row with status running; the
\* uuid4 of the row is the request's id
CreateExecution(r) ==
    /\ requests[r].pc = "found"
    /\ executions' = Store(executions, r,
                           [workflow_id |-> requests[r].workflow_id, status |-> "running",
                            result |-> NoReturn, error |-> NoText])
    /\ requests' = [requests EXCEPT ![r].statuses = <<"running">>, ![r].pc = "running"]
    /\ UNCHANGED workflows
    /\ UNCHANGED <<engineVars, agentVars, registryVars, runsVars>>

\* line 108: engine.run returns a payload
EngineRunReturns(r, result) ==
    /\ requests[r].pc = "running"
    /\ requests' = [requests EXCEPT ![r].result = [has |-> TRUE, value |-> result],
                                    ![r].pc = "returned"]
    /\ UNCHANGED <<workflows, executions>>
    /\ UNCHANGED <<engineVars, agentVars, registryVars, runsVars>>

\* line 108: engine.run raises
EngineRunRaises(r, message) ==
    /\ requests[r].pc = "running"
    /\ requests' = [requests EXCEPT ![r].exc = [has |-> TRUE, text |-> message],
                                    ![r].pc = "raised"]
    /\ UNCHANGED <<workflows, executions>>
    /\ UNCHANGED <<engineVars, agentVars, registryVars, runsVars>>

\* fault: every row is updated, the WHERE clause is missing
FinishExecutionAllRows(rows, execution_id, status, result, error) ==
    [id \in DOMAIN rows |-> [rows[id] EXCEPT !.status = status, !.result = result,
                                             !.error = error]]

\* store.finish_execution: UPDATE executions SET status, result, error WHERE id
FinishExecution(rows, execution_id, status, result, error) ==
    [id \in DOMAIN rows |->
        IF id = execution_id
        THEN [rows[id] EXCEPT !.status = status, !.result = result, !.error = error]
        ELSE rows[id]]

\* line 109: finish_execution(status="success", result=result)
MarkSuccess(r) ==
    /\ requests[r].pc = "returned"
    /\ executions' = FinishExecution(executions, r, "success", requests[r].result, NoText)
    /\ requests' = [requests EXCEPT ![r].statuses = Append(@, "success"),
                                    ![r].pc = "finished"]
    /\ UNCHANGED workflows
    /\ UNCHANGED <<engineVars, agentVars, registryVars, runsVars>>

\* lines 110-112: finish_execution(status="failed", error=str(exc)), then the
\* 400 response
MarkFailed(r) ==
    /\ requests[r].pc = "raised"
    /\ executions' = FinishExecution(executions, r, "failed", NoReturn, requests[r].exc)
    /\ requests' = [requests EXCEPT
                        ![r].statuses = Append(@, "failed"),
                        ![r].response = Respond(400, "Execution failed", NoExecution),
                        ![r].pc = "done"]
    /\ UNCHANGED workflows
    /\ UNCHANGED <<engineVars, agentVars, registryVars, runsVars>>

\* lines 114-117: store.get_execution, the record is the response
RunWorkflowResponds(r) ==
    /\ requests[r].pc = "finished"
    /\ requests' = [requests EXCEPT
                        ![r].response = IF r \in DOMAIN executions
                                        THEN Respond(200, "", executions[r])
                                        ELSE Respond(500, "Execution record missing",
                                                     NoExecution),
                        ![r].pc = "done"]
    /\ UNCHANGED <<workflows, executions>>
    /\ UNCHANGED <<engineVars, agentVars, registryVars, runsVars>>

ApiNext ==
    \E r \in ReqIds :
        \/ CreateWorkflowBegins(r)
        \/ CreateWorkflowInsert(r)
        \/ RunWorkflowBegins(r)
        \/ CreateExecution(r)
        \/ \E result \in EngineResults : EngineRunReturns(r, result)
        \/ \E message \in EngineErrors : EngineRunRaises(r, message)
        \/ MarkSuccess(r)
        \/ MarkFailed(r)
        \/ RunWorkflowResponds(r)

ApiSpec == Init /\ [][ApiNext]_vars

(***************************************************************************)
(* Vocabulary of the properties                                            *)
(***************************************************************************)
IdsOf(nodes) == {nodes[i].id : i \in 1..Len(nodes)}

\* the edges source -> target of an edge map
EdgePairs(edges) ==
    UNION {{<<edges[i].source, edges[i].targets[j]>> : j \in 1..Len(edges[i].targets)} :
              i \in 1..Len(edges)}

DistinctIds(wf) ==
    \A i, j \in 1..Len(wf.nodes) : i # j => wf.nodes[i].id # wf.nodes[j].id

\* the ids an edge map names, as a source key or as a target
EdgeIds(edges) ==
    {edges[i].source : i \in 1..Len(edges)}
        \cup UNION {{edges[i].targets[j] : j \in 1..Len(edges[i].targets)} :
                       i \in 1..Len(edges)}

ValidEdges(wf) == EdgeIds(wf.edges) \subseteq IdsOf(wf.nodes)

AllRegistered(wf) == \A i \in 1..Len(wf.nodes) : wf.nodes[i].type \in Registered

\* the ids reachable from the set S by one or more edges of E
RECURSIVE ReachPlus(_, _, _)
ReachPlus(E, S, seen) ==
    LET next == {e[2] : e \in {d \in E : d[1] \in S}} \ seen
    IN  IF next = {} THEN seen ELSE ReachPlus(E, next, seen \cup next)

\* a cycle among the nodes of the workflow, a self-loop included
HasCycle(wf) ==
    LET E == {e \in EdgePairs(wf.edges) : e[1] \in IdsOf(wf.nodes) /\ e[2] \in IdsOf(wf.nodes)}
    IN  \E n \in IdsOf(wf.nodes) : n \in ReachPlus(E, {n}, {})

WellFormed(wf) ==
    DistinctIds(wf) /\ AllRegistered(wf) /\ ValidEdges(wf) /\ ~HasCycle(wf)

Called(id) == {j \in 1..Len(events) : events[j].kind = "call" /\ events[j].id = id}
Returned(id) == {j \in 1..Len(events) : events[j].kind = "return" /\ events[j].id = id}
Calls == {j \in 1..Len(events) : events[j].kind = "call"}
Raises == {j \in 1..Len(events) : events[j].kind = "raise"}
Ended == {j \in 1..Len(events) : events[j].kind \in {"return", "raise"}}

\* the number of handler invocations that have started and not ended
InProgress == Cardinality(Calls) - Cardinality(Ended)

\* the entries of the edge map that target the node, by position in the map
UpstreamEntries(id, edges) == {i \in 1..Len(edges) : InSeq(id, edges[i].targets)}

Max(S) == CHOOSE m \in S : \A x \in S : x <= m

\* the position of a node id in the execution order (0 when absent)
PosOf(id) ==
    IF \E i \in 1..Len(ordered_nodes) : ordered_nodes[i].id = id
    THEN CHOOSE i \in 1..Len(ordered_nodes) : ordered_nodes[i].id = id
    ELSE 0

(***************************************************************************)
(* C1: for every edge source -> target, the handler of the source has been *)
(* invoked and has returned before the handler of the target is invoked,   *)
(* and while a handler runs the output of each of its upstream nodes is    *)
(* stored in the node-output map.                                          *)
(***************************************************************************)
C1_SourceBeforeTarget ==
    /\ \A e \in EdgePairs(workflow.edges) :
          \A j \in Called(e[2]) :
             \E i \in Called(e[1]), k \in Returned(e[1]) : i < k /\ k < j
    /\ pc = "in_handler" =>
          \A e \in EdgePairs(workflow.edges) :
             e[2] = ordered_nodes[pos].id => e[1] \in DOMAIN results

\* a well-formed workflow with a join (two sources, one target) has run to the end
C1_Witness ==
    /\ pc = "done"
    /\ WellFormed(workflow)
    /\ Len(workflow.nodes) = 3
    /\ \E t \in NodeIds : Cardinality({e \in EdgePairs(workflow.edges) : e[2] = t}) = 2
    \* the target is listed before one of its sources
    /\ \E e \in EdgePairs(workflow.edges) : workflow.nodes[1].id = e[2]

(***************************************************************************)
(* C2: on a well-formed workflow whose handlers all return, run ends by    *)
(* returning a payload after invoking every node's handler exactly once,   *)
(* never with two invocations in progress; it cannot fail and cannot stop  *)
(* before it has returned.                                                 *)
(***************************************************************************)
C2_EveryNodeOnce ==
    (pc # "idle" /\ Raises = {} /\ WellFormed(workflow)) =>
        /\ InProgress \in {0, 1}
        /\ \A id \in IdsOf(workflow.nodes) : Cardinality(Called(id)) <= 1
        /\ pc # "failed"
        /\ pc = "loop" => (pos <= Len(ordered_nodes) + 1 /\ (ENABLED Dispatch \/ ENABLED Finish))
        /\ pc = "in_handler" => (pos <= Len(ordered_nodes) /\ InProgress = 1)
        /\ pc = "done" =>
              /\ returned.has
              /\ InProgress = 0
              /\ Cardinality(Calls) = Len(workflow.nodes)
              /\ \A id \in IdsOf(workflow.nodes) :
                    Cardinality(Called(id)) = 1 /\ Cardinality(Returned(id)) = 1

C2_Witness ==
    /\ pc = "done"
    /\ WellFormed(workflow)
    /\ Len(workflow.nodes) = 3
    /\ Cardinality(EdgePairs(workflow.edges)) = 2
    /\ Cardinality(Calls) = 3

(***************************************************************************)
(* C3 as stated: every workflow whose edge map contains a cycle among its  *)
(* nodes fails with CyclicGraph and no handler is invoked.                 *)
(***************************************************************************)
C3_Original ==
    (pc # "idle" /\ HasCycle(workflow)) =>
        /\ pc = "failed"
        /\ failure.kind = "CyclicGraph"
        /\ events = <<>>

(***************************************************************************)
(* C3 amended: every workflow whose edge map names only existing nodes and *)
(* contains a cycle among them fails with CyclicGraph, and no handler is   *)
(* invoked, not even that of a node off the cycle.                         *)
(***************************************************************************)
C3_CycleRejected ==
    (pc # "idle" /\ ValidEdges(workflow) /\ HasCycle(workflow)) =>
        /\ pc = "failed"
        /\ failure.kind = "CyclicGraph"
        /\ events = <<>>

\* a cycle of two nodes next to a registered node that is on no cycle
C3_Witness ==
    /\ pc = "failed"
    /\ failure.kind = "CyclicGraph"
    /\ DistinctIds(workflow)
    /\ ValidEdges(workflow)
    /\ HasCycle(workflow)
    /\ Len(workflow.nodes) = 3
    /\ workflow.nodes[1].type \in Registered
    /\ workflow.nodes[1].id \notin EdgeIds(workflow.edges)

(***************************************************************************)
(* C4: every edge map that names an id absent from the node list, as a     *)
(* source or as a target, makes run fail with UnknownNodeReference with    *)
(* zero handler invocations.                                               *)
(***************************************************************************)
C4_UnknownReferenceRejected ==
    (pc # "idle" /\ ~ValidEdges(workflow)) =>
        /\ pc = "failed"
        /\ failure.kind = "UnknownNodeReference"
        /\ failure.id \in EdgeIds(workflow.edges) \ IdsOf(workflow.nodes)
        /\ Cardinality(Calls) = 0

\* the absent id is a target of an existing, registered source that is also on a cycle
C4_Witness ==
    /\ pc = "failed"
    /\ failure.kind = "UnknownNodeReference"
    /\ workflow.nodes # <<>>
    /\ AllRegistered(workflow)
    /\ HasCycle(workflow)
    /\ \A i \in 1..Len(workflow.edges) : workflow.edges[i].source \in IdsOf(workflow.nodes)

(***************************************************************************)
(* C5: the payload passed to a node with upstream nodes is last-writer-    *)
(* wins by the order of the source keys in the edge map: every field of    *)
(* some upstream output is in it, with the value of the last upstream      *)
(* output that has the field.                                              *)
(***************************************************************************)
C5_LastWriterWins ==
    pc = "in_handler" =>
        LET up == UpstreamEntries(ordered_nodes[pos].id, workflow.edges)
            Out(i) == results[workflow.edges[i].source]
            fields == UNION {DOMAIN Out(i) : i \in up}
        IN  \A f \in fields :
               LET writers == {i \in up : f \in DOMAIN Out(i)}
               IN  /\ f \in DOMAIN parent_payload
                   /\ parent_payload[f] = Out(Max(writers))[f]

\* upstream A returned {x:1,y:2} before upstream B returned {y:3,z:4}
C5_Witness ==
    /\ pc = "in_handler"
    /\ Len(workflow.edges) = 2
    /\ UpstreamEntries(ordered_nodes[pos].id, workflow.edges) = {1, 2}
    /\ results[workflow.edges[1].source] = [x |-> 1, y |-> 2]
    /\ results[workflow.edges[2].source] = [y |-> 3, z |-> 4]
    /\ parent_payload = [x |-> 1, y |-> 3, z |-> 4]
    \* the first source of the edge map ran after the second
    /\ PosOf(workflow.edges[1].source) > PosOf(workflow.edges[2].source)

\* the merge of the stored upstream outputs, field by field
UpstreamMerge(id) ==
    LET up == UpstreamEntries(id, workflow.edges)
        Out(i) == results[workflow.edges[i].source]
        fields == UNION {DOMAIN Out(i) : i \in up}
    IN  [f \in fields |-> Out(Max({i \in up : f \in DOMAIN Out(i)}))[f]]

(***************************************************************************)
(* C6 as stated: a node with no incoming edge is passed the run's input    *)
(* payload, and a node with incoming edges is passed exactly the merge of  *)
(* its upstream outputs, whatever those outputs are.                       *)
(***************************************************************************)
C6_InputResolution ==
    pc = "in_handler" =>
        IF UpstreamEntries(ordered_nodes[pos].id, workflow.edges) = {}
        THEN parent_payload = input_data
        ELSE parent_payload = UpstreamMerge(ordered_nodes[pos].id)

(***************************************************************************)
(* C7: when a handler fails, run fails with that failure and returns no    *)
(* payload; the failing handler was invoked once and nothing is invoked    *)
(* after it.                                                               *)
(***************************************************************************)
C7_HandlerFailureAborts ==
    \A j \in Raises :
        /\ j = Len(events)
        /\ pc = "failed"
        /\ failure = [kind |-> "HandlerFailure", id |-> events[j].id]
        /\ returned = NoReturn
        /\ Cardinality(Called(events[j].id)) = 1
        /\ PosOf(events[j].id) = pos
        /\ \A i \in (pos + 1)..Len(ordered_nodes) : Called(ordered_nodes[i].id) = {}

\* the second of three nodes failed
C7_Witness ==
    /\ pc = "failed"
    /\ Raises # {}
    /\ Len(ordered_nodes) = 3
    /\ pos = 2
    /\ Cardinality(Calls) = 2

(***************************************************************************)
(* C8: a successful run of a workflow with at least one node returns the   *)
(* stored output of the last node of the computed order, which is the      *)
(* payload the last handler invocation returned.                           *)
(***************************************************************************)
C8_ResultIsLastInOrder ==
    (pc = "done" /\ workflow.nodes # <<>>) =>
        /\ returned.has
        /\ events[Len(events)].kind = "return"
        /\ events[Len(events)].id = ordered_nodes[Len(ordered_nodes)].id
        /\ returned.value = events[Len(events)].payload
        /\ returned.value = results[ordered_nodes[Len(ordered_nodes)].id]

\* two terminal nodes with different outputs, both different from the first node's
C8_Witness ==
    /\ pc = "done"
    /\ Len(ordered_nodes) = 3
    /\ Cardinality({e[1] : e \in EdgePairs(workflow.edges)}) = 1
    /\ Cardinality({e[2] : e \in EdgePairs(workflow.edges)}) = 2
    /\ Cardinality({results[id] : id \in DOMAIN results}) = 3

(***************************************************************************)
(* C9 as stated: for every workflow with zero nodes run returns the input  *)
(* payload unchanged and invokes no handler.                               *)
(***************************************************************************)
C9_Original ==
    (pc # "idle" /\ workflow.nodes = <<>>) =>
        /\ pc # "failed"
        /\ events = <<>>
        /\ pc = "done" => returned = [has |-> TRUE, value |-> input_data]

(***************************************************************************)
(* C9 amended: for every workflow with zero nodes and an edge map without  *)
(* entries run returns the input payload unchanged and invokes no handler. *)
(***************************************************************************)
C9_EmptyWorkflowReturnsInput ==
    (pc # "idle" /\ workflow.nodes = <<>> /\ workflow.edges = <<>>) =>
        /\ pc \in {"loop", "done"}
        /\ events = <<>>
        /\ pc = "loop" => ENABLED Finish
        /\ pc = "done" => returned = [has |-> TRUE, value |-> input_data]

C9_Witness ==
    /\ pc = "done"
    /\ workflow.nodes = <<>>
    /\ workflow.edges = <<>>
    /\ input_data = [w |-> 7]
    /\ returned.value = [w |-> 7]

(***************************************************************************)
(* Vocabulary of the agent properties: what params and payload say, read   *)
(* from the arguments of the call                                          *)
(***************************************************************************)
GivenOr(v, default) == IF v.t = "absent" THEN default ELSE v

NodeModel == GivenOr(agent_params.settings.model, AgentDefaults.model).x
NodePrompt == GivenOr(agent_params.settings.system_prompt, AgentDefaults.system_prompt).x
NodeTools == GivenOr(agent_params.tools, AgentDefaults.tools).x
NodeInputField == GivenOr(agent_params.settings.input_field, AgentDefaults.input_field).x[1]

\* an explicit step list was given
Chained == agent_params.agents.t = "list"
Steps == agent_params.agents.items

\* the model, system prompt and tool list of step k of the step list
OwnModel(k) == GivenOr(Steps[k].model, StrV(NodeModel)).x
OwnPrompt(k) ==
    IF Steps[k].system_prompt.t \in {"absent", "none"} THEN NodePrompt
    ELSE Steps[k].system_prompt.x
OwnTools(k) == GivenOr(Steps[k].tools, ListV(NodeTools)).x

\* the user prompt as the payload holds it
UserPrompt == PyStr(agent_payload[NodeInputField])

IsPrefix(a, b) == Len(a) <= Len(b) /\ SubSeq(b, 1, Len(a)) = a

(***************************************************************************)
(* C10: in chained mode with n validated steps a successful call makes     *)
(* exactly n model invocations, one per step in list order, each with the  *)
(* step's own model, system prompt and tool list, the first with the       *)
(* original user prompt; in single-step mode a successful call makes       *)
(* exactly one invocation with the node-level configuration.               *)
(***************************************************************************)
C10_OneInvocationPerStep ==
    /\ Chained =>
          /\ Len(invocations) <= Len(Steps)
          /\ Len(trace) \in {Len(invocations), Len(invocations) - 1}
          /\ \A k \in 1..Len(invocations) :
                /\ invocations[k].model = OwnModel(k)
                /\ invocations[k].system_prompt = OwnPrompt(k)
                /\ IsPrefix(OwnPrompt(k), invocations[k].prompt)
                /\ invocations[k].tools = OwnTools(k)
          /\ invocations # <<>> => invocations[1].user_prompt = UserPrompt
          /\ apc \in {"finishing", "done"} => Len(invocations) = Len(Steps)
    /\ ~Chained =>
          /\ Len(invocations) <= 1
          /\ \A k \in 1..Len(invocations) :
                /\ invocations[k].model = NodeModel
                /\ invocations[k].system_prompt = NodePrompt
                /\ IsPrefix(NodePrompt, invocations[k].prompt)
                /\ invocations[k].tools = NodeTools
                /\ invocations[k].user_prompt = UserPrompt
          /\ apc \in {"finishing", "done"} => Len(invocations) = 1

\* a chain of two steps has succeeded: the first step has its own model, the
\* second inherits the node-level model given in params
C10_Witness ==
    /\ apc = "done"
    /\ Chained
    /\ Len(Steps) = 2
    /\ Len(invocations) = 2
    /\ agent_params.settings.model = StrV(<<"m1">>)
    /\ invocations[1].model = <<"m2">>
    /\ invocations[2].model = <<"m1">>
    /\ invocations[1].user_prompt = <<"P">>
    /\ invocations[2].user_prompt # <<"P">>

\* the running context after the steps whose outputs are outs, read from the
\* end: the last output that is not blank, the original request when none is
RECURSIVE ContextAfter(_, _)
ContextAfter(outs, original) ==
    IF outs = <<>> THEN original
    ELSE IF \E i \in 1..Len(outs[Len(outs)]) : outs[Len(outs)][i] \notin {" ", "\n"}
    THEN outs[Len(outs)]
    ELSE ContextAfter(SubSeq(outs, 1, Len(outs) - 1), original)

\* the text a finished call returned under agent_output
FinalOutput == agent_result["agent_output"].x

(***************************************************************************)
(* C11: after a chained run the final text output is the output of the     *)
(* last step whose output is not blank, and the original user prompt when  *)
(* every step's output is blank; for two steps it is the second step's     *)
(* output, or the context before that step when its output is blank.       *)
(***************************************************************************)
C11_FinalOutputIsLastNonBlank ==
    (apc = "done" /\ Chained) =>
        /\ Len(outputs) = Len(Steps)
        /\ FinalOutput = ContextAfter(outputs, UserPrompt)
        /\ Len(Steps) = 2 =>
              FinalOutput = IF NonBlank(outputs[2]) THEN outputs[2]
                            ELSE ContextAfter(<<outputs[1]>>, UserPrompt)

\* a chain of two steps whose second step returned blank text after the first
\* returned "o1"
C11_Witness ==
    /\ apc = "done"
    /\ Chained
    /\ outputs = <<(<<"o1">>), <<" ", "\n">>>>
    /\ FinalOutput = <<"o1">>

\* the fixed text around the original request and the running context
Embedding(original, context) ==
    <<"Original user request:\n">> \o original
        \o <<"\n\nCurrent context from previous agents:\n">> \o context
        \o <<"\n\nContinue and improve the answer.">>

(***************************************************************************)
(* C12 as stated: the prompt of every step k > 1 embeds the original       *)
(* request and the running context, the running context being the output   *)
(* of step k-1, or the original request if step k-1 returned blank text.   *)
(***************************************************************************)
C12_Original ==
    Chained =>
        \A k \in 2..Len(invocations) :
            invocations[k].user_prompt =
                Embedding(UserPrompt,
                          IF NonBlank(outputs[k - 1]) THEN outputs[k - 1] ELSE UserPrompt)

(***************************************************************************)
(* C12: the prompt of every step k > 1 of a chain embeds the original      *)
(* request and the running context, the running context being the output   *)
(* of the latest step before k that returned text that is not blank, or    *)
(* the original request if no step before k returned such text.            *)
(***************************************************************************)
C12_PromptEmbedsRunningContext ==
    Chained =>
        \A k \in 2..Len(invocations) :
            invocations[k].user_prompt =
                Embedding(UserPrompt, ContextAfter(SubSeq(outputs, 1, k - 1), UserPrompt))

\* the third step is invoked after the first returned "o1" and the second blank
\* text: its prompt carries "o1", the output of the first step
C12_Witness ==
    /\ Chained
    /\ Len(invocations) = 3
    /\ Len(outputs) >= 2
    /\ outputs[1] = <<"o1">>
    /\ ~NonBlank(outputs[2])
    /\ invocations[3].user_prompt = Embedding(<<"P">>, <<"o1">>)

\* the name of step k of the step list: its own when it is a non-empty string
OwnName(k) ==
    IF Steps[k].name.t = "str" /\ Steps[k].name.x # <<>> THEN Steps[k].name.x
    ELSE <<"agent_", ToString(k)>>

\* what the trace of the chain records for step k
StepRecord(k) ==
    [name |-> OwnName(k), model |-> OwnModel(k), tools |-> OwnTools(k),
     output |-> outputs[k]]

TraceKeys == {"agent_trace", "agent_count"}

(***************************************************************************)
(* C13 as stated: the returned payload carries a trace and a step count    *)
(* exactly when the call ran a chain, with one entry per step in order     *)
(* (name, model, tool names, raw output) and the count of steps.           *)
(***************************************************************************)
C13_Original ==
    apc = "done" =>
        /\ \A key \in TraceKeys : key \in DOMAIN agent_result <=> Chained
        /\ Chained =>
              /\ agent_result["agent_trace"].tr = [k \in 1..Len(Steps) |-> StepRecord(k)]
              /\ agent_result["agent_count"] = IntV(Len(Steps))

(***************************************************************************)
(* C13: a call that ran a chain returns a payload whose trace has one      *)
(* entry per step, in step order, with the step's name, model, tool names  *)
(* and raw output (blank outputs too), and whose step count is the number  *)
(* of steps; a single-step call adds neither: the trace and the step count *)
(* of its result are those of the input payload, absent when it has none.  *)
(***************************************************************************)
C13_TraceOnlyFromChain ==
    apc = "done" =>
        /\ Chained =>
              /\ TraceKeys \subseteq DOMAIN agent_result
              /\ agent_result["agent_trace"] =
                     TraceList([k \in 1..Len(Steps) |-> StepRecord(k)])
              /\ agent_result["agent_count"] = IntV(Len(Steps))
        /\ ~Chained =>
              \A key \in TraceKeys :
                  /\ key \in DOMAIN agent_result <=> key \in DOMAIN agent_payload
                  /\ key \in DOMAIN agent_payload => agent_result[key] = agent_payload[key]

\* a chain of two steps has returned: the second step returned blank text, and
\* the trace replaces the one the input payload carried
C13_Witness ==
    /\ apc = "done"
    /\ Chained
    /\ "agent_trace" \in DOMAIN agent_payload
    /\ Len(agent_result["agent_trace"].tr) = 2
    /\ agent_result["agent_trace"].tr[1].name = <<"researcher">>
    /\ agent_result["agent_trace"].tr[2].name = <<"agent_", "2">>
    /\ ~NonBlank(agent_result["agent_trace"].tr[2].output)
    /\ agent_result["agent_count"] = IntV(2)

\* what makes a given value unfit: not a non-empty string, not a positive
\* integer, not a number, not a list of strings
BadText(v) == v.t # "str" \/ v.x = <<>>
BadCount(v) == v.t # "int" \/ v.n < 1
BadNumber(v) == v.t \notin {"int", "float"}
BadNames(v) == v.t # "list"

\* a node-level setting that is given and unfit
BadSettings ==
    LET c == agent_params.settings
        Given(key) == c[key].t # "absent"
    IN  \/ Given("model") /\ BadText(c.model)
        \/ Given("input_field") /\ BadText(c.input_field)
        \/ Given("num_ctx") /\ BadCount(c.num_ctx)
        \/ Given("num_predict") /\ BadCount(c.num_predict)
        \/ Given("max_tool_calls") /\ BadCount(c.max_tool_calls)
        \/ Given("temperature") /\ BadNumber(c.temperature)
        \/ agent_params.tools.t # "absent" /\ BadNames(agent_params.tools)

\* entry k of the step list is unfit: not an object, a model that is given
\* and is not a non-empty string, a system prompt that is given and is not a
\* string, a tool list that is given and is not a list of strings
BadStep(k) ==
    \/ Steps[k].t # "dict"
    \/ Steps[k].model.t # "absent" /\ BadText(Steps[k].model)
    \/ Steps[k].system_prompt.t \notin {"absent", "none", "str"}
    \/ Steps[k].tools.t # "absent" /\ BadNames(Steps[k].tools)

\* the step list is given and is empty or has an unfit entry
BadSteps == Chained /\ (Steps = <<>> \/ \E k \in 1..Len(Steps) : BadStep(k))

ValidConfig == apc # "idle" /\ agent_failure.kind # "InvalidAgentConfig"

(***************************************************************************)
(* C15: with a valid configuration the call fails with MissingInputField   *)
(* exactly when the configured input field is not a key of the payload:    *)
(* absent, it fails naming the field without any model invocation;         *)
(* present, whatever its value, it goes on to the model invocation.        *)
(***************************************************************************)
C15_MissingInputFieldIffAbsent ==
    ValidConfig =>
        IF NodeInputField \notin DOMAIN agent_payload
        THEN /\ apc = "failed"
             /\ agent_failure = [kind |-> "MissingInputField", msg |-> NodeInputField]
             /\ invocations = <<>>
        ELSE /\ agent_failure.kind # "MissingInputField"
             /\ (invocations = <<>> /\ agent_failure = NoAgentError) => ENABLED AgentInvoke

\* the call failed while a model invocation was in progress
FailedInInvocation == apc = "failed" /\ Len(invocations) > Len(outputs)

\* the call failed where _run_single_agent imports the collaborator, before
\* the invocation of the step
FailedAtImport ==
    /\ apc = "failed"
    /\ agent_failure.kind \notin {"InvalidAgentConfig", "MissingInputField"}
    /\ Len(invocations) = Len(outputs)

(***************************************************************************)
(* C16: the call fails with MissingCapability if and only if the           *)
(* collaborator cannot be imported; a failure raised during a model        *)
(* invocation is the failure of the call, unmodified, and is never         *)
(* MissingCapability.                                                      *)
(***************************************************************************)
C16_MissingCapabilityIffNotInstalled ==
    /\ agent_failure = MissingCapability <=> FailedAtImport
    /\ FailedInInvocation =>
          /\ agent_failure.kind \in ModelExceptions
          /\ agent_failure.msg = "raised by agent.invoke"

\* a model invocation of the call has failed
InvocationFailed == agent_failure # NoAgentError /\ Len(invocations) > Len(outputs)

(***************************************************************************)
(* C17: when the invocation of step k fails the call has failed for good:  *)
(* step k was invoked once, after the k-1 steps before it returned, no     *)
(* step after k is invoked, nothing else happens, and no payload (no       *)
(* partial trace or context) is returned.                                  *)
(***************************************************************************)
C17_InvocationFailureIsHardStop ==
    InvocationFailed =>
        /\ apc = "failed"
        /\ Len(invocations) = step
        /\ Len(outputs) = step - 1
        /\ Chained => step <= Len(Steps)
        /\ agent_result = EmptyPayload
        /\ ~ENABLED AgentNext

\* the second of three steps failed with the model's own error after the first
\* returned
C17_Witness ==
    /\ apc = "failed"
    /\ Chained
    /\ Len(Steps) = 3
    /\ agent_failure.kind = "RuntimeError"
    /\ Len(invocations) = 2
    /\ Len(trace) = 1
    /\ agent_result = EmptyPayload

\* the first position of the execution order whose node has a type without a
\* handler (0 when every node has one)
FirstUnregistered ==
    LET U == {i \in 1..Len(ordered_nodes) : ordered_nodes[i].type \notin Registered}
    IN  IF U = {} THEN 0 ELSE CHOOSE i \in U : \A j \in U : i <= j

\* the ids of the handler invocations, in the order they were made
RECURSIVE CallIds(_)
CallIds(log) ==
    IF log = <<>> THEN <<>>
    ELSE (IF Head(log).kind = "call" THEN <<Head(log).id>> ELSE <<>>) \o CallIds(Tail(log))

(***************************************************************************)
(* C19: a node type without a handler is found when the node is            *)
(* dispatched, not before: when position k of the execution order is the   *)
(* first such node, run fails with HandlerNotFound only after the handlers *)
(* of the k-1 nodes before it were invoked, in order, and returned; the    *)
(* handler of no node at position k or later is ever invoked and run       *)
(* never returns a payload.                                                *)
(***************************************************************************)
C19_HandlerNotFoundAtDispatch ==
    /\ FirstUnregistered # 0 =>
          /\ pc # "done"
          /\ returned = NoReturn
          /\ \A j \in Calls : PosOf(events[j].id) < FirstUnregistered
          /\ failure.kind \in {None, "HandlerNotFound", "HandlerFailure"}
    /\ failure.kind = "HandlerNotFound" =>
          /\ pc = "failed"
          /\ pos = FirstUnregistered
          /\ failure.id = ordered_nodes[pos].id
          /\ CallIds(events) = [i \in 1..(pos - 1) |-> ordered_nodes[i].id]
          /\ Cardinality(Ended) = pos - 1
          /\ Raises = {}
    /\ (pc = "loop" /\ FirstUnregistered # 0 /\ pos = FirstUnregistered) =>
          /\ Cardinality(Calls) = pos - 1
          /\ ENABLED Dispatch
          /\ ~ENABLED Finish

\* a workflow of three nodes whose second node in the order has no handler:
\* the first handler was invoked and returned, then run failed
C19_Witness ==
    /\ pc = "failed"
    /\ failure.kind = "HandlerNotFound"
    /\ Len(ordered_nodes) = 3
    /\ pos = 2
    /\ Cardinality(Calls) = 1
    /\ Cardinality(Returned(ordered_nodes[1].id)) = 1

\* the position in a log of register calls of the last call for a type name
\* (0 when there is none)
LastRegistered(type_name, calls) ==
    LET S == {i \in 1..Len(calls) : calls[i].type_name = type_name}
    IN  IF S = {} THEN 0 ELSE CHOOSE i \in S : \A j \in S : j <= i

(***************************************************************************)
(* C18: after any sequence of register calls a lookup of a name gives the  *)
(* handler of the most recent register call for that name, and fails with  *)
(* NotFound exactly when there was none; every name is bound to the spec   *)
(* of its own last register call, so a later call for another name does    *)
(* not change it and nothing removes it.                                   *)
(***************************************************************************)
C18_LastRegistrationWins ==
    /\ \A name \in TypeNames :
          LET last == LastRegistered(name, register_calls)
          IN  /\ name \in DOMAIN registry_nodes <=> last # 0
              /\ last # 0 => registry_nodes[name] = register_calls[last]
    /\ DOMAIN registry_nodes \subseteq TypeNames
    /\ lookup.called =>
          LET before == SubSeq(register_calls, 1, lookup.at)
              last == LastRegistered(lookup.type_name, before)
          IN  IF last = 0
              THEN lookup.err = "NotFound" /\ lookup.spec = NoSpec
              ELSE lookup.err = None /\ lookup.spec.handler = before[last].handler

\* t1 was registered twice and t2 once in between: a lookup of t1 gives the
\* handler of its second registration, t2 keeps its own
C18_Witness ==
    /\ Len(register_calls) = 3
    /\ register_calls[1] = [type_name |-> "t1", handler |-> "h1"]
    /\ register_calls[2] = [type_name |-> "t2", handler |-> "h1"]
    /\ register_calls[3] = [type_name |-> "t1", handler |-> "h2"]
    /\ lookup.called /\ lookup.at = 3 /\ lookup.type_name = "t1"
    /\ lookup.spec.handler = "h2"
    /\ registry_nodes["t2"].handler = "h1"

\* a call of run executed alone, from start to end: the output map after the
\* loop, the failure and the returned payload
RECURSIVE AloneLoop(_, _, _, _, _)
AloneLoop(order, edges, input, res, i) ==
    IF i > Len(order)
    THEN [failure |-> NoError, results |-> res,
          returned |-> [has |-> TRUE, value |-> RunResult(order, res, input)]]
    ELSE IF order[i].type \notin BuiltinTypes
    THEN [failure |-> [kind |-> "HandlerNotFound", id |-> order[i].id], results |-> res,
          returned |-> NoReturn]
    ELSE AloneLoop(order, edges, input,
                   Store(res, order[i].id,
                         CallHandler(order[i].type, order[i].params,
                                     ResolveInput(order[i], edges, res, input))),
                   i + 1)

RunAlone(wf, input) ==
    LET sorted == TopologicalSort(wf.nodes, wf.edges)
    IN  IF sorted.err # NoError
        THEN [failure |-> sorted.err, results |-> EmptyPayload, returned |-> NoReturn]
        ELSE AloneLoop(sorted.order, wf.edges, input, EmptyPayload, 1)

\* the ids of the nodes run r has completed
CompletedIds(r) == {runs[r].ordered_nodes[i].id : i \in 1..(runs[r].pos - 1)}

(***************************************************************************)
(* C20: each of two concurrent runs on one engine owns its output map:     *)
(* under every interleaving of their steps the map of a run holds exactly  *)
(* the outputs of the nodes that run has completed, each equal to the      *)
(* output the run stores when executed alone, the payload a handler is     *)
(* given is the one it is given when the run is executed alone, and the    *)
(* run ends as it ends alone: same returned payload, or same failure.      *)
(***************************************************************************)
C20_RunsAreIndependent ==
    \A r \in RunIds :
        LET me == runs[r]
            alone == RunAlone(me.workflow, me.input_data)
        IN  me.pc # "idle" =>
                /\ DOMAIN me.results = CompletedIds(r)
                /\ \A id \in DOMAIN me.results : me.results[id] = alone.results[id]
                /\ me.pc = "in_handler" =>
                      me.parent_payload =
                          ResolveInput(me.ordered_nodes[me.pos], me.workflow.edges,
                                       [id \in CompletedIds(r) |-> alone.results[id]],
                                       me.input_data)
                /\ me.pc = "done" => me.returned = alone.returned /\ alone.failure = NoError
                /\ me.pc = "failed" => me.failure = alone.failure /\ me.returned = NoReturn
                /\ me.pc \notin {"done", "failed"} => me.returned = NoReturn

\* two runs of the same two-node workflow on different inputs are both between
\* their first and their second node, and hold different outputs for node a
C20_Witness ==
    /\ runs[1].workflow = runs[2].workflow
    /\ Len(runs[1].ordered_nodes) = 2
    /\ runs[1].input_data = [w |-> 7]
    /\ runs[2].input_data = [u |-> 1]
    /\ runs[1].pc = "in_handler" /\ runs[1].pos = 2
    /\ runs[2].pc = "in_handler" /\ runs[2].pos = 2
    /\ runs[1].results["a"] = [w |-> 7]
    /\ runs[2].results["a"] = [u |-> 1]
    /\ runs[1].parent_payload # runs[2].parent_payload

\* the names of the fields the handler writes into its result
AddedNames ==
    {"agent_output", "agent_model", "agent_num_ctx", "agent_num_predict", "agent_tools",
     "agent_trace", "agent_count"}

\* the result holds every other field of the input payload, unchanged, and no
\* field that is neither of the input payload nor written by the handler
FrameKept ==
    apc = "done" =>
        /\ \A f \in (DOMAIN agent_payload) \ AddedNames :
              f \in DOMAIN agent_result /\ agent_result[f] = agent_payload[f]
        /\ DOMAIN agent_result \subseteq (DOMAIN agent_payload) \cup AddedNames
        /\ {"agent_output", "agent_model", "agent_num_ctx", "agent_num_predict",
            "agent_tools"} \subseteq DOMAIN agent_result

(***************************************************************************)
(* C21: the payload the agent handler returns is its input payload with    *)
(* added fields: every field of the input payload that is not one of the   *)
(* added fields is in the result with the same value, and no step of the   *)
(* handler changes the input payload it was passed.                        *)
(***************************************************************************)
C21_ResultExtendsPayload ==
    /\ []FrameKept
    /\ [][apc # "idle" => agent_payload' = agent_payload]_vars

\* a call with a payload holding the field keep besides the input field has
\* returned: keep is still there, next to the added output
C21_Witness ==
    /\ apc = "done"
    /\ agent_payload = [message |-> IntV(5), keep |-> StrV(<<"k">>)]
    /\ agent_result["keep"] = StrV(<<"k">>)
    /\ agent_result["message"] = IntV(5)
    /\ agent_result["agent_output"] = StrV(<<"o1">>)

\* the fixed instruction to prefer tools
ToolPreference ==
    "When asked for factual, financial, company, or current-event information, use available tools before answering. If a tool fails, say that clearly."

\* the prompt expected for a configured prompt and a list of tool names
PromptFor(configured, names) ==
    IF \E i \in 1..Len(names) : names[i] = "tavily_search"
    THEN configured \o <<"\n", ToolPreference>>
    ELSE configured

(***************************************************************************)
(* C22: in single-step mode the system prompt sent to the model is the     *)
(* configured prompt followed by the tool-preference instruction exactly   *)
(* when tavily_search is among the configured tool names, and the          *)
(* configured prompt itself otherwise, whatever the model returns.         *)
(***************************************************************************)
C22_ToolPreferenceOnlyWithWebSearch ==
    (~Chained /\ invocations # <<>>) =>
        /\ Len(invocations) = 1
        /\ invocations[1].prompt = PromptFor(NodePrompt, NodeTools)
        /\ invocations[1].prompt # NodePrompt <=>
              \E i \in 1..Len(NodeTools) : NodeTools[i] = "tavily_search"

\* a single-step call with the web-search tool among its tools has returned:
\* the model was sent the default prompt followed by the instruction
C22_Witness ==
    /\ apc = "done"
    /\ ~Chained
    /\ agent_params.tools = ListV(<<"tavily_search", "no_such_tool">>)
    /\ invocations[1].prompt =
           <<"You are a helpful workflow agent.", "\n", ToolPreference>>
    /\ invocations[1].selected_tools = <<"tavily_search">>

\* how often an id occurs in a list of targets
Occurrences(id, targets) == Cardinality({j \in 1..Len(targets) : targets[j] = id})

\* the targets the edge map lists for a source
TargetsOf(id, edges) ==
    LET S == {i \in 1..Len(edges) : edges[i].source = id}
    IN  IF S = {} THEN <<>> ELSE edges[CHOOSE i \in S : TRUE].targets

\* the number of edges into an id, over the whole edge map
RECURSIVE EdgesInto(_, _)
EdgesInto(id, edges) ==
    IF edges = <<>> THEN 0
    ELSE Occurrences(id, Head(edges).targets) + EdgesInto(id, Tail(edges))

\* the number of edges into an id from the nodes of a list
RECURSIVE EdgesFrom(_, _, _)
EdgesFrom(id, sources, edges) ==
    IF sources = <<>> THEN 0
    ELSE Occurrences(id, TargetsOf(Head(sources), edges))
             + EdgesFrom(id, Tail(sources), edges)

\* the targets of node n, in target order, whose last edge from a node not yet
\* emitted is the one at that place of n's target list
RECURSIVE Freed(_, _, _, _)
Freed(n, j, emitted, edges) ==
    LET targets == TargetsOf(n, edges)
    IN  IF j > Len(targets) THEN <<>>
        ELSE (IF EdgesInto(targets[j], edges) - EdgesFrom(targets[j], emitted, edges)
                    = Occurrences(targets[j], SubSeq(targets, 1, j))
              THEN <<targets[j]>> ELSE <<>>)
             \o Freed(n, j + 1, emitted, edges)

\* first in, first out: the head of the queue is emitted, the targets it frees
\* go to the back
RECURSIVE FifoOrder(_, _, _)
FifoOrder(queue, emitted, edges) ==
    IF queue = <<>> THEN emitted
    ELSE FifoOrder(Tail(queue) \o Freed(Head(queue), 1, emitted, edges),
                   Append(emitted, Head(queue)), edges)

\* the order of a workflow: the frontier is the nodes without incoming edge, in
\* node-list order
OrderOf(wf) ==
    LET ids == [i \in 1..Len(wf.nodes) |-> wf.nodes[i].id]
        Free(id) == EdgesInto(id, wf.edges) = 0
    IN  FifoOrder(SelectSeq(ids, Free), <<>>, wf.edges)

\* the sort of the run succeeded
Sorted == pc # "idle" /\ failure.kind \notin {"UnknownNodeReference", "CyclicGraph"}

(***************************************************************************)
(* C23: the execution order is a function of the workflow alone, the       *)
(* first-in first-out Kahn order: the frontier is the nodes without        *)
(* incoming edge in node-list order, and a successor joins the back of the *)
(* queue when its last incoming edge is removed, successors taken in       *)
(* target order; handlers are invoked in that order, so two runs of the    *)
(* same node list and edge map invoke them in the same order.              *)
(***************************************************************************)
C23_OrderIsFifoKahn ==
    Sorted =>
        LET order == OrderOf(workflow)
            calls == CallIds(events)
        IN  /\ [i \in 1..Len(ordered_nodes) |-> ordered_nodes[i].id] = order
            /\ IsPrefix(calls, order)
            /\ pc = "done" => calls = order

\* nodes a, b, c with the one edge a -> c: b was in the frontier before c was
\* freed, so the handlers ran in the order a, b, c
C23_Witness ==
    /\ pc = "done"
    /\ [i \in 1..Len(workflow.nodes) |-> workflow.nodes[i].id] = <<"a", "b", "c">>
    /\ workflow.edges = <<[source |-> "a", targets |-> <<"c">>]>>
    /\ CallIds(events) = <<"a", "b", "c">>

\* the texts of the parts of a content list that have a text field, in order
PartTexts(parts) ==
    LET HasText(p) == p.has_text
        kept == SelectSeq(parts, HasText)
    IN  [i \in 1..Len(kept) |-> kept[i].text]

\* texts joined by newlines
RECURSIVE Joined(_)
Joined(texts) ==
    IF Len(texts) = 0 THEN <<>>
    ELSE IF Len(texts) = 1 THEN texts[1]
    ELSE Joined(SubSeq(texts, 1, Len(texts) - 1)) \o <<"\n">> \o texts[Len(texts)]

\* the text of a result as the statement has it: every case that is not plain
\* text or a list of parts gives the stringified result
StatedText(result) ==
    IF result.messages = "list" /\ result.content.t = "str" THEN result.content.x
    ELSE IF result.messages = "list" /\ result.content.t = "list"
    THEN Joined(PartTexts(result.content.parts))
    ELSE <<"str(result)">>

\* the text of a result: a list of parts counts when a part has a text field;
\* a result without messages gives the stringified result, every other case
\* the stringified last message
ExtractedText(result) ==
    IF result.messages # "list" THEN <<"str(result)">>
    ELSE IF result.content.t = "str" THEN result.content.x
    ELSE IF result.content.t = "list" /\ PartTexts(result.content.parts) # <<>>
    THEN Joined(PartTexts(result.content.parts))
    ELSE <<"str(last)">>

(***************************************************************************)
(* C24 as stated: the text taken from a result is the content of the last  *)
(* message when it is plain text, the newline-joined text fields of its    *)
(* parts when it is a list of parts, and in every other case the           *)
(* stringified form of the whole result.                                   *)
(***************************************************************************)
C24_Original ==
    [][\A result \in ModelResults :
          InvokeReturns(result) => outputs' = Append(outputs, StatedText(result))]_vars

(***************************************************************************)
(* C24: the text taken from a result is the content of the last message    *)
(* when it is plain text, verbatim; the newline-joined text fields of its  *)
(* parts when it is a list with at least one part that has a text field;   *)
(* the stringified form of the whole result when the result has no         *)
(* messages; and the stringified form of the last message otherwise.       *)
(***************************************************************************)
C24_ExtractionRule ==
    [][\A result \in ModelResults :
          InvokeReturns(result) => outputs' = Append(outputs, ExtractedText(result))]_vars

\* the steps of a chain returned a list of parts with two texts, then a list of
\* parts without any text, then a result without messages
C24_Witness ==
    /\ Len(outputs) = 3
    /\ outputs[1] = <<"p1", "\n", "p2">>
    /\ outputs[2] = <<"str(last)">>
    /\ outputs[3] = <<"str(result)">>

(***************************************************************************)
(* C25                                                                     *)
(***************************************************************************)
\* the run requests that created an execution record
RunRequests == {r \in ReqIds : requests[r].endpoint = "run_workflow" /\ r \in DOMAIN executions}

Completed(r) == requests[r].pc = "done"

Terminal == {"success", "failed"}

\* the row of a run that returned: success, the result stored, no error
SuccessRow(r) ==
    [workflow_id |-> requests[r].workflow_id, status |-> "success",
     result |-> requests[r].result, error |-> NoText]

\* the row of a run that raised: failed, the message stored, no result
FailedRow(r) ==
    [workflow_id |-> requests[r].workflow_id, status |-> "failed",
     result |-> NoReturn, error |-> requests[r].exc]

RecordSettled ==
    \A r \in RunRequests :
        /\ executions[r].status \in {"running"} \cup Terminal
        /\ executions[r].status = "success" => requests[r].result.has /\ ~requests[r].exc.has
        /\ Completed(r) =>
              /\ requests[r].result.has =>
                    /\ executions[r] = SuccessRow(r)
                    /\ requests[r].response.code = 200
                    /\ requests[r].response.body = SuccessRow(r)
              /\ requests[r].exc.has =>
                    /\ executions[r] = FailedRow(r)
                    /\ requests[r].response.code = 400
              /\ requests[r].result.has # requests[r].exc.has
              /\ Len(requests[r].statuses) = 2

RecordStep ==
    \A r \in ReqIds :
        /\ (r \notin DOMAIN executions /\ r \in DOMAIN executions') =>
              /\ executions'[r].status = "running"
              /\ ~executions'[r].result.has
              /\ ~executions'[r].error.has
        /\ (r \in DOMAIN executions /\ executions[r].status \in Terminal) =>
              /\ r \in DOMAIN executions'
              /\ executions'[r] = executions[r]

\* C25: an execution record created by the run endpoint starts in status
\* running; when its request completes it is success with the result of the
\* run and no error if the engine run returned (response 200), or failed
\* with the error message and no result if the run raised (response 400);
\* once terminal the record no longer changes, and it is never success for
\* a run that raised
C25_ExecutionRecordLifecycle == []RecordSettled /\ [][RecordStep]_vars

\* two runs have completed, one recorded as success and one as failed
C25_Witness ==
    \E r1, r2 \in RunRequests :
        /\ Completed(r1) /\ executions[r1].status = "success"
        /\ Completed(r2) /\ executions[r2].status = "failed"
        /\ requests[r2].response.code = 400

(***************************************************************************)
(* C29                                                                     *)
(***************************************************************************)
CreateRequests == {r \in ReqIds : requests[r].endpoint = "create_workflow"}

\* the requests that stored a workflow under the id
StoredBy(id) ==
    {r \in CreateRequests : requests[r].workflow_id = id /\ requests[r].response.code = 200}

Conflict == Respond(409, "Workflow id already exists", NoExecution)

CreateSettled ==
    /\ \A id \in WorkflowIds : Cardinality(StoredBy(id)) <= 1
    /\ \A r \in CreateRequests :
          Completed(r) => \/ r \in StoredBy(requests[r].workflow_id)
                          \/ requests[r].response = Conflict

StoredKept == \A id \in DOMAIN workflows : id \in DOMAIN workflows' /\ workflows'[id] = workflows[id]

\* C29: under every interleaving of concurrent create-workflow requests an
\* id is stored by at most one request, every other request for the id is
\* answered with the conflict 'Workflow id already exists', and a stored
\* definition is never changed
C29_CreateIsAtomic == []CreateSettled /\ [][StoredKept]_vars

(***************************************************************************)
(* C26                                                                     *)
(***************************************************************************)
\* a call of the multi_agent handler has returned
MultiAgentReturned == apc = "done" /\ agent_call.handler = "multi_agent"

MultiAgentKeys == {"multi_agent_trace", "multi_agent_count"}

\* the agent handler ran a chain of steps
RanChain == agent_chain # <<>>

\* C26: every successful call of the multi_agent handler has run the agent
\* handler with a chain of steps, and its result holds multi_agent_output
\* equal to agent_output, multi_agent_trace equal to agent_trace and
\* multi_agent_count equal to agent_count, all of them present
C26_MultiAgentAlwaysChained ==
    MultiAgentReturned =>
        /\ RanChain
        /\ MultiAgentKeys \cup {"agent_trace", "agent_count"} \subseteq DOMAIN agent_result
        /\ agent_result["multi_agent_output"] = agent_result["agent_output"]
        /\ agent_result["multi_agent_trace"] = agent_result["agent_trace"]
        /\ agent_result["multi_agent_count"] = agent_result["agent_count"]

(***************************************************************************)
(* C27                                                                     *)
(***************************************************************************)
\* the node whose output run returns
ReturnedNode == ordered_nodes[Len(ordered_nodes)]

\* the targets the edge map gives for the id
Downstream(id) == {e[2] : e \in {p \in EdgePairs(workflow.edges) : p[1] = id}}

\* C27: when run returns for a workflow with at least one node, the value is
\* the output of a node that no edge leaves: the edge map gives the node no
\* target
C27_ResultIsFromTerminalNode ==
    (pc = "done" /\ workflow.nodes # <<>>) =>
        /\ returned.has
        /\ returned.value = results[ReturnedNode.id]
        /\ Downstream(ReturnedNode.id) = {}
        /\ EdgesGet(workflow.edges, ReturnedNode.id) = <<>>

\* a run of three nodes returned the output of a node with two upstream
\* nodes, one of them listed after it in the node list
C27_Witness ==
    /\ pc = "done"
    /\ returned.has
    /\ Len(workflow.nodes) = 3
    /\ workflow.nodes[1].id = ReturnedNode.id
    /\ Cardinality({e[1] : e \in {p \in EdgePairs(workflow.edges) :
                                       p[2] = ReturnedNode.id}}) = 2

(***************************************************************************)
(* C28                                                                     *)
(***************************************************************************)
\* the positions of the node list that hold the id
NodesWithId(id) == {i \in 1..Len(workflow.nodes) : workflow.nodes[i].id = id}

\* C28: a run of a workflow in which two nodes have the same id fails with
\* an error and invokes no handler, whatever the edge map; in a run that
\* invoked a handler the node ids are pairwise distinct and every entry of
\* the node-output map is the output of exactly one node
C28_DuplicateIdsRejected ==
    /\ (pc # "idle" /\ ~DistinctIds(workflow)) =>
          /\ pc = "failed"
          /\ failure # NoError
          /\ events = <<>>
          /\ results = <<>>
          /\ ~returned.has
    /\ events # <<>> =>
          /\ DistinctIds(workflow)
          /\ \A id \in DOMAIN results : Cardinality(NodesWithId(id)) = 1

\* a run of three registered nodes, two with the same id and no edge among
\* them, has failed
C28_Witness ==
    /\ pc = "failed"
    /\ Len(workflow.nodes) = 3
    /\ Cardinality(IdsOf(workflow.nodes)) = 2
    /\ AllRegistered(workflow)
    /\ workflow.edges = <<>>
    /\ events = <<>>

====
